---- MODULE Spec2Model ----
(***************************************************************************)
(* Model of the cloud-storage Telegram bot (src/src/bot.ts and             *)
(* src/src/services/cloudStorageApi.ts).                                   *)
(*                                                                         *)
(* Every inbound update is handled by one async handler.  A handler runs   *)
(* synchronously from one await to the next, so one action of the model is *)
(* either the synchronous prefix of a handler (the delivery of an update)  *)
(* or the resumption of a suspended handler with the outcome of the call   *)
(* it awaits, up to the next call it issues.  Handlers in flight live in   *)
(* the slots of tasks; a finished handler stays in its slot, with the log  *)
(* of the calls it issued, until a later delivery reuses the slot.         *)
(***************************************************************************)
EXTENDS Integers, Sequences, FiniteSets, TLC

\* ------------------------------------------------------------- bounds
\* Handlers that can be in flight (or kept, finished) at the same time.
MaxTasks == 2
\* Distinct update ids the provider hands out in the main specification.
MaxUpdates == 2
\* Distinct senders.
MaxUsers == 2
\* Distinct tokens the backend issues.
MaxTokens == 2
\* updates of one delete-account flow (command, button press, /status)
MaxFlowUpdates == 3
\* pages of a caller's link listing
MaxPages == 2
\* update ids the Deduplicator is asked about beyond its capacity
MaxOverflow == 2

\* ------------------------------------------------- program constants
MAX_PROCESSED_UPDATES == 1000
EVICT_COUNT == 500
MAX_FILE_SIZE == 20 * 1024 * 1024

Users == 1..MaxUsers
\* ctx.from is undefined
NoUser == 0
\* Tokens the backend issues with a registration response.
Tokens == 1..MaxTokens

MediaKinds == {"document", "photo", "video", "audio", "voice"}
\* mime_type of the payload: absent ("") or given by the client
MimeTypes == {"", "application/pdf"}
\* file_size of the payload: at the limit, above it
FileSizes == {MAX_FILE_SIZE, MAX_FILE_SIZE + 1}

VARIABLES
    processedUpdates,   \* the Set of bot.ts:29, in insertion order
    userTokens,         \* the Map of bot.ts:26: sender -> token (0: no entry)
    tasks,              \* slot -> handler invocation
    lastUpdateId        \* highest update_id the provider has assigned

vars == <<processedUpdates, userTokens, tasks, lastUpdateId>>

Slots == DOMAIN tasks

\* ------------------------------------------------------------ errors
NoError == [cls |-> "", message |-> ""]
ApiError(m) == [cls |-> "CloudStorageApiError", message |-> m]
PlainError(m) == [cls |-> "Error", message |-> m]
TypeError == [cls |-> "TypeError", message |-> "fetch failed"]
SyntaxError == [cls |-> "SyntaxError", message |-> "Unexpected token"]
GrammyError == [cls |-> "GrammyError", message |-> "Call to Telegram failed"]

\* --------------------------------------------------- Update Deduplicator
Has(set, id) == \E i \in 1..Len(set) : set[i] = id

Min(a, b) == IF a < b THEN a ELSE b

\* (mutant) the cleanup of old entries is missing
CleanupNothing(set) == set

\* (mutant) the cleanup deletes the most recent half instead of the oldest
CleanupNewest(set) ==
    IF Len(set) >= MAX_PROCESSED_UPDATES
    THEN SubSeq(set, 1, Len(set) - Min(EVICT_COUNT, Len(set)))
    ELSE set

\* (mutant) the cleanup deletes three quarters of the set: slice(0, 750)
CleanupTooMany(set) ==
    IF Len(set) >= MAX_PROCESSED_UPDATES
    THEN SubSeq(set, Min(EVICT_COUNT + EVICT_COUNT \div 2, Len(set)) + 1, Len(set))
    ELSE set

\* bot.ts:37-40: Array.from(processedUpdates).slice(0, 500) is deleted
Cleanup(set) ==
    IF Len(set) >= MAX_PROCESSED_UPDATES
    THEN SubSeq(set, Min(EVICT_COUNT, Len(set)) + 1, Len(set))
    ELSE set

\* isProcessed's return value and the set it leaves behind
isProcessed(set, id) == Has(set, id)

\* (mutant) the identifier is checked but never recorded
isProcessedSetNoAdd(set, id) == set

\* (mutant) a recorded identifier that is seen again moves to the newest
\* position of the set
isProcessedSetRefresh(set, id) ==
    IF Has(set, id)
    THEN Append(SelectSeq(set, LAMBDA x : x # id), id)
    ELSE Append(Cleanup(set), id)

isProcessedSet(set, id) ==
    IF Has(set, id) THEN set ELSE Append(Cleanup(set), id)

\* ------------------------------------------------- Storage API Client
\* What the backend (or the network) answers to one request of the client.
RawResponses ==
    {[transport |-> "fail", ok |-> FALSE, json |-> FALSE, message |-> "", error |-> ""],
     [transport |-> "ok", ok |-> TRUE, json |-> TRUE, message |-> "", error |-> ""],
     [transport |-> "ok", ok |-> TRUE, json |-> FALSE, message |-> "", error |-> ""],
     [transport |-> "ok", ok |-> FALSE, json |-> FALSE, message |-> "", error |-> ""]}
    \cup
    {[transport |-> "ok", ok |-> FALSE, json |-> TRUE, message |-> m, error |-> e] :
        m \in {"", "Quota exceeded"}, e \in {"", "E_DETAIL"}}

\* CloudStorageApi.request: fetch, then response.json(), then the status check
request(raw) ==
    IF raw.transport = "fail" THEN [ok |-> FALSE, error |-> TypeError]
    ELSE IF ~raw.json THEN [ok |-> FALSE, error |-> SyntaxError]
    ELSE IF ~raw.ok
         THEN [ok |-> FALSE,
               error |-> ApiError(IF raw.message # "" THEN raw.message
                                  ELSE IF raw.error # "" THEN raw.error
                                  ELSE "API request failed")]
    ELSE [ok |-> TRUE, error |-> NoError]

\* no answer yet, or a call that is no request of the client
\* cloudStorageApi.ts:205: the shared secret the client is configured with
ApiKey == "botApiKey"

\* the methods that call request pass a method and a body and no headers
NoHeaders == <<>>

\* (mutant) request does not add the shared secret
requestHeadersWithoutKey(options) ==
    [h \in {"Content-Type"} \cup DOMAIN options |->
        IF h \in DOMAIN options THEN options[h] ELSE "application/json"]

\* cloudStorageApi.ts:214-218: the headers of a JSON request, the caller's
\* own headers spread last
requestHeaders(options) ==
    [h \in {"Content-Type", "X-API-Key"} \cup DOMAIN options |->
        IF h \in DOMAIN options THEN options[h]
        ELSE IF h = "X-API-Key" THEN ApiKey ELSE "application/json"]

\* cloudStorageApi.ts:263-269: the headers of the legacy multipart upload
uploadFileHeaders(telegramId, contentType) ==
    [h \in {"X-API-Key", "X-Telegram-Id", "X-Content-Type"} |->
        IF h = "X-API-Key" THEN ApiKey
        ELSE IF h = "X-Telegram-Id" THEN telegramId ELSE contentType]

\* the operations that go through request
JsonOps ==
    {"createUser", "generateShareLink", "updatePhone", "listSharedFiles",
     "deleteShareLink", "getLinksWithViews", "deleteAccount", "getUploadUrl",
     "completeUpload"}

NoAnswer == [transport |-> "", ok |-> FALSE, json |-> FALSE, message |-> "", error |-> ""]

\* What object storage (or the network) answers to the PUT
PutResponses == {"ok", "notok", "fail"}

\* CloudStorageApi.uploadToS3
uploadToS3(resp) ==
    IF resp = "fail" THEN [ok |-> FALSE, error |-> TypeError]
    ELSE IF resp = "notok" THEN [ok |-> FALSE, error |-> ApiError("Failed to upload to S3")]
    ELSE [ok |-> TRUE, error |-> NoError]

\* ------------------------------------------------------------ the log
\* One call a handler issued: to the backend, to the provider, to storage.
\* st is the call's outcome once the handler has been resumed with it, and
\* res the reference the answer carried (the object of a presign answer).
Call(op, tid, obj, ctype, text, detail) ==
    [op |-> op, tid |-> tid, obj |-> obj, ctype |-> ctype,
     text |-> text, detail |-> detail, st |-> "pending", res |-> 0,
     answer |-> NoAnswer]

\* the last call of the log has been answered
Settle(log, st) == [log EXCEPT ![Len(log)].st = st]
SettleWith(log, st, res) == [log EXCEPT ![Len(log)].st = st, ![Len(log)].res = res]
\* what came back for a call to the provider or to storage, as the log keeps
\* it: a full answer, an answer that lacks what was asked for (no file_path,
\* a status that is not ok), or a transport failure
AnswerCode(o) == IF o = "ok" THEN 1 ELSE IF o = "fail" THEN 3 ELSE 2

\* a request of the Storage API Client has been answered with raw
SettleRequest(log, raw) ==
    [log EXCEPT ![Len(log)].st = IF request(raw).ok THEN "ok" ELSE "fail",
                ![Len(log)].answer = raw]

\* ctx.update and ctx.message of an inbound update
NoUpdate ==
    [id |-> 0, kind |-> "", from |-> NoUser, mime |-> "", size |-> 0,
     emptyPhoto |-> FALSE, contact |-> NoUser, match |-> <<>>]

\* A handler invocation: where it is suspended, its ctx.update, its locals
\* (urlResponse; the token of a registration answer), the error it caught and
\* the step that threw it, how it ended, and the calls it issued.  replay
\* records that the provider had delivered this update before.
IdleTask ==
    [pc |-> "idle", update |-> NoUpdate, replay |-> FALSE, urlResponse |-> 0,
     token |-> 0, failedStep |-> "", error |-> NoError, outcome |-> "",
     log |-> <<>>]

InFlight(t) == t.pc \notin {"idle", "done"}

\* The slot a new handler invocation takes: an empty one, else a finished one.
IdleSlots == {s \in Slots : tasks[s].pc = "idle"}
DoneSlots == {s \in Slots : tasks[s].pc = "done"}
LowestOf(S) == CHOOSE s \in S : \A u \in S : s <= u
FreeSlots ==
    IF IdleSlots # {} THEN {LowestOf(IdleSlots)}
    ELSE IF DoneSlots # {} THEN {LowestOf(DoneSlots)}
    ELSE {}

\* The next update id the provider assigns.
FreshIds == IF lastUpdateId < MaxUpdates THEN {lastUpdateId + 1} ELSE {}

CommandKinds == {"start", "status", "help", "confirm_delete_account"}

\* The media updates a sender can cause.
MediaUpdates(id, kinds, mimes, sizes, senders) ==
    {u \in [id : {id}, kind : kinds, from : senders, mime : mimes,
            size : sizes, emptyPhoto : BOOLEAN, contact : {NoUser}, match : {<<>>}] :
        /\ (u.emptyPhoto => u.kind = "photo" /\ u.from # NoUser)
        /\ (u.kind = "photo" => u.mime = "")}

CommandUpdates(id, kinds, senders) ==
    [id : {id}, kind : kinds, from : senders, mime : {""}, size : {0},
     emptyPhoto : {FALSE}, contact : {NoUser}, match : {<<>>}]

Issue(t, pc, call) == [t EXCEPT !.pc = pc, !.log = Append(@, call)]

Finish(t, outcome) == [t EXCEPT !.pc = "done", !.outcome = outcome]

\* An error leaves the handler: bot.catch logs it (bot.ts:908-910)
Escape(t, err) == [t EXCEPT !.pc = "done", !.outcome = "escaped", !.error = err]

\* ------------------------------------------------------ media handlers
\* bot.ts:534, 669, 739: the document, video and audio handlers check the size
HasSizeCheck(kind) == kind \in {"document", "video", "audio"}

\* bot.ts:530, 623, 665, 735, 804
ContentTypeOf(kind, mime) ==
    CASE kind = "document" -> IF mime # "" THEN mime ELSE "application/octet-stream"
      [] kind = "photo" -> "image/jpeg"
      [] kind = "video" -> IF mime # "" THEN mime ELSE "video/mp4"
      [] kind = "audio" -> IF mime # "" THEN mime ELSE "audio/mpeg"
      [] kind = "voice" -> IF mime # "" THEN mime ELSE "audio/ogg"

\* bot.ts:572, 637, 707, 776, 836
GenericUploadError(kind) ==
    CASE kind = "document" -> "Failed to upload file."
      [] kind = "photo" -> "Failed to upload photo."
      [] kind = "video" -> "Failed to upload video."
      [] kind = "audio" -> "Failed to upload audio."
      [] kind = "voice" -> "Failed to upload voice message."

\* (mutant) the catch block shows its fixed text whatever was thrown
ErrorMessageGeneric(kind, err) == GenericUploadError(kind)

\* the catch block of a media handler: errorMessage
ErrorMessageOf(kind, err) ==
    IF err.cls = "CloudStorageApiError" THEN err.message ELSE GenericUploadError(kind)

\* The pre-flight size guard of a media handler
TooLarge(kind, size) == HasSizeCheck(kind) /\ size > MAX_FILE_SIZE

\* Whether a media handler consults the Deduplicator and finds a replay
IsDuplicate(upd) == isProcessed(processedUpdates, upd.id)

\* (mutant) the identifier is recorded only once the handler has accepted
\* the message: a rejected one is not remembered
HandleMediaRecordLate(s, upd, replay) ==
    LET t0 == [IdleTask EXCEPT !.update = upd, !.replay = replay]
        rejected == \/ upd.from = NoUser
                    \/ upd.kind = "photo" /\ upd.emptyPhoto
                    \/ TooLarge(upd.kind, upd.size)
    IN  IF IsDuplicate(upd)
        THEN /\ tasks' = [tasks EXCEPT ![s] = Finish(t0, "dropped")]
             /\ UNCHANGED processedUpdates
        ELSE /\ processedUpdates' = IF rejected THEN processedUpdates
                                    ELSE isProcessedSet(processedUpdates, upd.id)
             /\ tasks' = [tasks EXCEPT ![s] =
                    IF upd.from = NoUser
                    THEN Issue(t0, "finalReply", Call("reply", 0, 0, "", "NoIdentity", ""))
                    ELSE IF upd.kind = "photo" /\ upd.emptyPhoto
                    THEN Issue(t0, "finalReply", Call("reply", 0, 0, "", "NoPhoto", ""))
                    ELSE IF TooLarge(upd.kind, upd.size)
                    THEN Issue(t0, "finalReply", Call("reply", 0, 0, "", "TooLarge", ""))
                    ELSE Issue(t0, "statusReply", Call("reply", 0, 0, "", "Uploading", ""))]

\* The synchronous prefix of a media handler, up to its first await.
HandleMedia(s, upd, replay) ==
    LET t0 == [IdleTask EXCEPT !.update = upd, !.replay = replay]
    IN  IF IsDuplicate(upd)
        THEN /\ tasks' = [tasks EXCEPT ![s] = Finish(t0, "dropped")]
             /\ UNCHANGED processedUpdates
        ELSE /\ processedUpdates' = isProcessedSet(processedUpdates, upd.id)
             /\ tasks' = [tasks EXCEPT ![s] =
                    IF upd.from = NoUser
                    THEN Issue(t0, "finalReply", Call("reply", 0, 0, "", "NoIdentity", ""))
                    ELSE IF upd.kind = "photo" /\ upd.emptyPhoto
                    THEN Issue(t0, "finalReply", Call("reply", 0, 0, "", "NoPhoto", ""))
                    ELSE IF TooLarge(upd.kind, upd.size)
                    THEN Issue(t0, "finalReply", Call("reply", 0, 0, "", "TooLarge", ""))
                    ELSE Issue(t0, "statusReply", Call("reply", 0, 0, "", "Uploading", ""))]

\* (mutant) a failed presign is issued once more before the handler gives up
FailRetry(t, step, err) ==
    IF step = "presign"
          /\ Len(SelectSeq(t.log, LAMBDA c : c.op = "getUploadUrl")) < 2
    THEN Issue(t, "presign",
               Call("getUploadUrl", t.update.from, 0,
                    ContentTypeOf(t.update.kind, t.update.mime), "", ""))
    ELSE [t EXCEPT !.pc = "editFail", !.failedStep = step, !.error = err,
                   !.log = Append(@, Call("edit", 0, 0, "", "UploadFailed",
                                          ErrorMessageOf(t.update.kind, err)))]

\* (mutant) the catch block only logs: the status message is left as it is
FailSilent(t, step, err) ==
    [t EXCEPT !.pc = "done", !.outcome = "failed", !.failedStep = step, !.error = err]

\* The catch block of a media handler: the failure edit of the status message.
Fail(t, step, err) ==
    [t EXCEPT !.pc = "editFail", !.failedStep = step, !.error = err,
              !.log = Append(@, Call("edit", 0, 0, "", "UploadFailed",
                                     ErrorMessageOf(t.update.kind, err)))]

\* (mutant) the handler goes from its status message straight to the presign
\* request, without the registration call
StatusReplyResolvedUnregistered(s) ==
    /\ tasks[s].pc = "statusReply"
    /\ \E o \in {"ok", "fail"} :
        LET t == [tasks[s] EXCEPT !.log = Settle(@, o)]
        IN  tasks' = [tasks EXCEPT ![s] =
                IF o = "fail"
                THEN Escape(t, GrammyError)
                ELSE Issue(t, "presign",
                           Call("getUploadUrl", t.update.from, 0,
                                ContentTypeOf(t.update.kind, t.update.mime), "", ""))]
    /\ UNCHANGED <<processedUpdates, userTokens, lastUpdateId>>

\* await ctx.reply(status message) returns or throws (outside the try block)
StatusReplyResolved(s) ==
    /\ tasks[s].pc = "statusReply"
    /\ \E o \in {"ok", "fail"} :
        LET t == [tasks[s] EXCEPT !.log = Settle(@, o)]
        IN  tasks' = [tasks EXCEPT ![s] =
                IF o = "fail"
                THEN Escape(t, GrammyError)
                ELSE Issue(t, "register", Call("createUser", t.update.from, 0, "", "", ""))]
    /\ UNCHANGED <<processedUpdates, userTokens, lastUpdateId>>

\* The payload of getUploadUrl (bot.ts:88-93)
PresignContentType(t) == ContentTypeOf(t.update.kind, t.update.mime)

\* ensureUserRegistered returns true or false (its catch keeps the error of
\* createUser to itself); the handler ignores which
RegisterResolved(s, R) ==
    /\ tasks[s].pc = "register"
    /\ \E raw \in R :
        LET r == request(raw)
            t == [tasks[s] EXCEPT !.log = Settle(@, IF r.ok THEN "ok" ELSE "fail")]
        IN  tasks' = [tasks EXCEPT ![s] =
                Issue(t, "presign",
                      Call("getUploadUrl", t.update.from, 0, PresignContentType(t), "", ""))]
    /\ UNCHANGED <<processedUpdates, userTokens, lastUpdateId>>

\* The provisional object reference (and upload URL) the backend hands out:
\* one that no other transaction in flight holds.
HeldObjects(s) == {tasks[u].urlResponse : u \in {v \in Slots \ {s} : InFlight(tasks[v])}}
NewObject(s) == LowestOf(Slots \ HeldObjects(s))

\* fastUploadFile step 1 returns urlResponse, or throws
PresignResolved(s, R) ==
    /\ tasks[s].pc = "presign"
    /\ \E raw \in R :
        LET r == request(raw)
            t == [tasks[s] EXCEPT !.log =
                    IF r.ok THEN SettleWith(SettleRequest(@, raw), "ok", NewObject(s))
                    ELSE SettleRequest(@, raw)]
        IN  tasks' = [tasks EXCEPT ![s] =
                IF r.ok
                THEN Issue([t EXCEPT !.urlResponse = NewObject(s)], "getFile",
                           Call("getFile", 0, 0, "", "", ""))
                ELSE Fail(t, "presign", r.error)]
    /\ UNCHANGED <<processedUpdates, userTokens, lastUpdateId>>

\* downloadTelegramFile: bot.api.getFile returns a file, with or without a path
GetFileResolved(s) ==
    /\ tasks[s].pc = "getFile"
    /\ \E o \in {"ok", "nopath", "fail"} :
        LET t == [tasks[s] EXCEPT !.log =
                        SettleWith(@, IF o = "fail" THEN "fail" ELSE "ok", AnswerCode(o))]
        IN  tasks' = [tasks EXCEPT ![s] =
                CASE o = "ok" -> Issue(t, "download", Call("fetch", 0, 0, "", "", ""))
                  [] o = "nopath" ->
                        Fail(t, "fetch", PlainError("Could not get file path from Telegram"))
                  [] o = "fail" -> Fail(t, "fetch", GrammyError)]
    /\ UNCHANGED <<processedUpdates, userTokens, lastUpdateId>>

\* (mutant) the PUT is sent with the handler's default type, not the declared one
TransferContentTypeDefault(t) == ContentTypeOf(t.update.kind, "")

\* The upload URL and the content type of the storage PUT (bot.ts:99-103)
TransferUrl(t) == t.urlResponse
TransferContentType(t) == ContentTypeOf(t.update.kind, t.update.mime)

\* (mutant) the response.ok check of the download is missing
downloadFetchUnchecked(resp) ==
    IF resp = "fail" THEN [ok |-> FALSE, error |-> TypeError]
    ELSE [ok |-> TRUE, error |-> NoError]

\* downloadTelegramFile after getFile: fetch(fileUrl) and the response.ok check
downloadFetch(resp) ==
    IF resp = "fail" THEN [ok |-> FALSE, error |-> TypeError]
    ELSE IF resp = "notok"
         THEN [ok |-> FALSE, error |-> PlainError("Failed to download file")]
    ELSE [ok |-> TRUE, error |-> NoError]

\* downloadTelegramFile: the fetch of the file bytes returns or throws
DownloadResolved(s) ==
    /\ tasks[s].pc = "download"
    /\ \E o \in {"ok", "notok", "fail"} :
        LET r == downloadFetch(o)
            t == [tasks[s] EXCEPT !.log =
                        SettleWith(@, IF o = "ok" THEN "ok" ELSE "fail", AnswerCode(o))]
        IN  tasks' = [tasks EXCEPT ![s] =
                IF r.ok
                THEN Issue(t, "transfer",
                           Call("uploadToS3", 0, TransferUrl(t), TransferContentType(t), "", ""))
                ELSE Fail(t, "fetch", r.error)]
    /\ UNCHANGED <<processedUpdates, userTokens, lastUpdateId>>

\* (mutant) urlResponse is kept in one variable shared by all handlers: the
\* confirm step reads the reference of the latest presign answer
ConfirmFsObjectIdShared(s) ==
    LET held == {tasks[u].urlResponse : u \in Slots}
    IN  CHOOSE n \in held : \A m \in held : m <= n

\* The payload of completeUpload (bot.ts:106-109)
ConfirmTelegramId(s) == tasks[s].update.from
ConfirmFsObjectId(s) == tasks[s].urlResponse

\* fastUploadFile step 3 returns or throws
TransferResolved(s) ==
    /\ tasks[s].pc = "transfer"
    /\ \E resp \in PutResponses :
        LET r == uploadToS3(resp)
            t == [tasks[s] EXCEPT !.log =
                        SettleWith(@, IF resp = "ok" THEN "ok" ELSE "fail", AnswerCode(resp))]
        IN  tasks' = [tasks EXCEPT ![s] =
                IF r.ok
                THEN Issue(t, "confirm",
                           Call("completeUpload", ConfirmTelegramId(s), ConfirmFsObjectId(s),
                                "", "", ""))
                ELSE Fail(t, "transfer", r.error)]
    /\ UNCHANGED <<processedUpdates, userTokens, lastUpdateId>>

\* fastUploadFile step 4 returns or throws
ConfirmResolved(s, R) ==
    /\ tasks[s].pc = "confirm"
    /\ \E raw \in R :
        LET r == request(raw)
            t == [tasks[s] EXCEPT !.log = SettleRequest(@, raw)]
        IN  tasks' = [tasks EXCEPT ![s] =
                IF r.ok
                THEN Issue(t, "editOk", Call("edit", 0, 0, "", "UploadComplete", ""))
                ELSE Fail(t, "confirm", r.error)]
    /\ UNCHANGED <<processedUpdates, userTokens, lastUpdateId>>

\* await ctx.api.editMessageText(success) inside the try block
EditOkResolved(s) ==
    /\ tasks[s].pc = "editOk"
    /\ \E o \in {"ok", "fail"} :
        LET t == [tasks[s] EXCEPT !.log = Settle(@, o)]
        IN  tasks' = [tasks EXCEPT ![s] =
                IF o = "ok" THEN Finish(t, "uploaded") ELSE Fail(t, "", GrammyError)]
    /\ UNCHANGED <<processedUpdates, userTokens, lastUpdateId>>

\* await ctx.api.editMessageText(failure) inside the catch block
EditFailResolved(s) ==
    /\ tasks[s].pc = "editFail"
    /\ \E o \in {"ok", "fail"} :
        LET t == [tasks[s] EXCEPT !.log = Settle(@, o)]
        IN  tasks' = [tasks EXCEPT ![s] =
                IF o = "ok" THEN Finish(t, "failed") ELSE Escape(t, GrammyError)]
    /\ UNCHANGED <<processedUpdates, userTokens, lastUpdateId>>

\* `return ctx.reply(...)`: the handler's promise settles as the reply does
FinalReplyResolved(s) ==
    /\ tasks[s].pc = "finalReply"
    /\ \E o \in {"ok", "fail"} :
        LET t == [tasks[s] EXCEPT !.log = Settle(@, o)]
        IN  tasks' = [tasks EXCEPT ![s] =
                IF o = "ok" THEN Finish(t, "replied") ELSE Escape(t, GrammyError)]
    /\ UNCHANGED <<processedUpdates, userTokens, lastUpdateId>>

\* ---------------------------------------------------- command handlers
\* The synchronous prefix of bot.command('start'), ('status'), ('help') and of
\* bot.callbackQuery('confirm_delete_account'): none consults the Deduplicator.
HandleCommand(s, upd, replay) ==
    LET t0 == [IdleTask EXCEPT !.update = upd, !.replay = replay]
    IN  /\ tasks' = [tasks EXCEPT ![s] =
            CASE upd.kind = "help" ->
                    Issue(t0, "finalReply", Call("reply", 0, 0, "", "Help", ""))
              [] upd.kind = "confirm_delete_account" /\ upd.from = NoUser ->
                    Issue(t0, "finalAck",
                          Call("answerCallbackQuery", 0, 0, "", "NoIdentity", ""))
              [] upd.kind # "help" /\ upd.kind # "confirm_delete_account"
                    /\ upd.from = NoUser ->
                    Issue(t0, "finalReply", Call("reply", 0, 0, "", "NoIdentity", ""))
              [] upd.kind = "start" /\ upd.from # NoUser ->
                    Issue(t0, "startCreate", Call("createUser", upd.from, 0, "", "", ""))
              [] upd.kind = "status" /\ upd.from # NoUser ->
                    Issue(t0, "statusCreate", Call("createUser", upd.from, 0, "", "", ""))
              [] upd.kind = "confirm_delete_account" /\ upd.from # NoUser ->
                    Issue(t0, "deleteAccount", Call("deleteAccount", upd.from, 0, "", "", ""))]
        /\ UNCHANGED processedUpdates

\* response.data.isNewUser as the createUser call's result keeps it
IsNewUserFlag(isNewUser) == IF isNewUser THEN 1 ELSE 2

\* (mutant) the welcome is chosen by whether a token is cached for the caller
WelcomeTextFromCache(t, isNewUser) ==
    IF userTokens[t.update.from] = 0 THEN "WelcomeNew" ELSE "WelcomeBack"

\* (mutant) every registration is greeted as a new account
WelcomeTextAlwaysCreated(t, isNewUser) == "WelcomeNew"

\* bot.ts:150-165: the reply of /start to the event t handles
WelcomeText(t, isNewUser) == IF isNewUser THEN "WelcomeNew" ELSE "WelcomeBack"

\* bot.command('start'): createUser returns or throws (bot.ts:141-180)
StartCreateResolved(s, R) ==
    /\ tasks[s].pc = "startCreate"
    /\ \E raw \in R :
        LET r == request(raw)
            t == [tasks[s] EXCEPT !.log = SettleRequest(@, raw)]
        IN  IF r.ok
            THEN \E token \in Tokens, isNewUser \in BOOLEAN :
                    /\ userTokens' = [userTokens EXCEPT ![t.update.from] = token]
                    /\ tasks' = [tasks EXCEPT ![s] =
                            Issue([t EXCEPT !.token = token,
                                            !.log = SettleWith(@, "ok", IsNewUserFlag(isNewUser))],
                                  "finalReply",
                                  Call("reply", 0, 0, "", WelcomeText(t, isNewUser), ""))]
            ELSE /\ UNCHANGED userTokens
                 /\ tasks' = [tasks EXCEPT ![s] =
                        Issue([t EXCEPT !.error = r.error], "finalReply",
                              IF r.error.cls = "CloudStorageApiError"
                              THEN Call("reply", 0, 0, "", "FailedToRegister", r.error.message)
                              ELSE Call("reply", 0, 0, "", "UnexpectedSetupError", ""))]
    /\ UNCHANGED <<processedUpdates, lastUpdateId>>

\* bot.command('status'): createUser returns or throws (bot.ts:190-235)
StatusCreateResolved(s, R) ==
    /\ tasks[s].pc = "statusCreate"
    /\ \E raw \in R :
        LET r == request(raw)
            t == [tasks[s] EXCEPT !.log = SettleRequest(@, raw)]
        IN  tasks' = [tasks EXCEPT ![s] =
                IF r.ok
                THEN Issue(t, "finalReply", Call("reply", 0, 0, "", "AccountStatus", ""))
                ELSE Issue([t EXCEPT !.error = r.error], "finalReply",
                           IF r.error.cls = "CloudStorageApiError"
                           THEN Call("reply", 0, 0, "", "CouldNotFetchStatus", r.error.message)
                           ELSE Call("reply", 0, 0, "", "UnexpectedError", ""))]
    /\ UNCHANGED <<processedUpdates, userTokens, lastUpdateId>>

\* The catch block of confirm_delete_account (bot.ts:298-307)
FailDelete(t, err) ==
    Issue([t EXCEPT !.error = err], "finalAck",
          Call("answerCallbackQuery", 0, 0, "", "Alert",
               IF err.cls = "CloudStorageApiError" THEN err.message
               ELSE "Failed to delete account."))

\* (mutant) a confirmed deletion also removes the caller's cached token
DeleteAccountResolvedEvicts(s, R) ==
    /\ tasks[s].pc = "deleteAccount"
    /\ \E raw \in R :
        LET r == request(raw)
            t == [tasks[s] EXCEPT !.log = SettleRequest(@, raw)]
        IN  /\ tasks' = [tasks EXCEPT ![s] =
                    IF r.ok
                    THEN Issue(t, "ackDeleted",
                               Call("answerCallbackQuery", 0, 0, "", "Account deleted", ""))
                    ELSE FailDelete(t, r.error)]
            /\ userTokens' = IF r.ok THEN [userTokens EXCEPT ![t.update.from] = 0]
                             ELSE userTokens
    /\ UNCHANGED <<processedUpdates, lastUpdateId>>

\* confirm_delete_account: deleteAccount returns or throws
DeleteAccountResolved(s, R) ==
    /\ tasks[s].pc = "deleteAccount"
    /\ \E raw \in R :
        LET r == request(raw)
            t == [tasks[s] EXCEPT !.log = SettleRequest(@, raw)]
        IN  tasks' = [tasks EXCEPT ![s] =
                IF r.ok
                THEN Issue(t, "ackDeleted",
                           Call("answerCallbackQuery", 0, 0, "", "Account deleted", ""))
                ELSE FailDelete(t, r.error)]
    /\ UNCHANGED <<processedUpdates, userTokens, lastUpdateId>>

\* confirm_delete_account: answerCallbackQuery('Account deleted') returns or throws
AckDeletedResolved(s) ==
    /\ tasks[s].pc = "ackDeleted"
    /\ \E o \in {"ok", "fail"} :
        LET t == [tasks[s] EXCEPT !.log = Settle(@, o)]
        IN  tasks' = [tasks EXCEPT ![s] =
                IF o = "ok"
                THEN Issue(t, "editDeleted", Call("edit", 0, 0, "", "AccountDeleted", ""))
                ELSE FailDelete(t, GrammyError)]
    /\ UNCHANGED <<processedUpdates, userTokens, lastUpdateId>>

\* confirm_delete_account: editMessageText(deleted) returns or throws
EditDeletedResolved(s) ==
    /\ tasks[s].pc = "editDeleted"
    /\ \E o \in {"ok", "fail"} :
        LET t == [tasks[s] EXCEPT !.log = Settle(@, o)]
        IN  tasks' = [tasks EXCEPT ![s] =
                IF o = "ok" THEN Finish(t, "deleted") ELSE FailDelete(t, GrammyError)]
    /\ UNCHANGED <<processedUpdates, userTokens, lastUpdateId>>

\* the last answerCallbackQuery of a callback handler returns or throws
FinalAckResolved(s) ==
    /\ tasks[s].pc = "finalAck"
    /\ \E o \in {"ok", "fail"} :
        LET t == [tasks[s] EXCEPT !.log = Settle(@, o)]
        IN  tasks' = [tasks EXCEPT ![s] =
                IF o = "ok" THEN Finish(t, "answered") ELSE Escape(t, GrammyError)]
    /\ UNCHANGED <<processedUpdates, userTokens, lastUpdateId>>

\* ------------------------------------------------- contact verification
\* contact.user_id of a shared contact: absent, or a user's id
ContactUserIds == Users \cup {NoUser}

\* (mutant) a contact without a user id passes for the sender's own
IsOwnContactOrAbsent(upd) == upd.contact = NoUser \/ upd.contact = upd.from

\* bot.ts:859: the shared contact is the sender's own
\* (contact.user_id?.toString() !== telegramId rejects it otherwise)
IsOwnContact(upd) == upd.contact # NoUser /\ upd.contact = upd.from

\* the catch block of the contact handler (bot.ts:883-895)
PhoneErrorMessage(err) ==
    IF err.cls = "CloudStorageApiError" THEN err.message
    ELSE "Failed to verify phone number."

\* The synchronous prefix of bot.on('message:contact') (bot.ts:850-875)
HandleContact(s, upd, replay) ==
    LET t0 == [IdleTask EXCEPT !.update = upd, !.replay = replay]
    IN  /\ tasks' = [tasks EXCEPT ![s] =
            IF upd.from = NoUser
            THEN Issue(t0, "finalReply", Call("reply", 0, 0, "", "NoIdentity", ""))
            ELSE IF ~IsOwnContact(upd)
            THEN Issue(t0, "finalReply", Call("reply", 0, 0, "", "ShareOwnNumber", ""))
            ELSE Issue(t0, "updatePhone", Call("updatePhone", upd.from, 0, "", "", ""))]
        /\ UNCHANGED processedUpdates

\* bot.on('message:contact'): updatePhone returns or throws (bot.ts:871-895)
UpdatePhoneResolved(s, R) ==
    /\ tasks[s].pc = "updatePhone"
    /\ \E raw \in R :
        LET r == request(raw)
            t == [tasks[s] EXCEPT !.log = SettleRequest(@, raw)]
        IN  tasks' = [tasks EXCEPT ![s] =
                IF r.ok
                THEN Issue(t, "finalReply", Call("reply", 0, 0, "", "PhoneVerified", ""))
                ELSE Issue([t EXCEPT !.error = r.error], "finalReply",
                           Call("reply", 0, 0, "", "PhoneFailed", PhoneErrorMessage(r.error)))]
    /\ UNCHANGED <<processedUpdates, userTokens, lastUpdateId>>

\* ------------------------------------------------- delete-account flow
\* The synchronous prefix of bot.command('delete_account') (bot.ts:257-278)
HandleDeleteAccount(s, upd, replay) ==
    LET t0 == [IdleTask EXCEPT !.update = upd, !.replay = replay]
    IN  /\ tasks' = [tasks EXCEPT ![s] =
            IF upd.from = NoUser
            THEN Issue(t0, "finalReply", Call("reply", 0, 0, "", "NoIdentity", ""))
            ELSE Issue(t0, "finalReply", Call("reply", 0, 0, "", "ConfirmDeletion", ""))]
        /\ UNCHANGED processedUpdates

\* (mutant) the cancel button is wired to the deletion
HandleCancelDeleteDeletes(s, upd, replay) ==
    LET t0 == [IdleTask EXCEPT !.update = upd, !.replay = replay]
    IN  /\ tasks' = [tasks EXCEPT ![s] =
            Issue(t0, "deleteAccount", Call("deleteAccount", upd.from, 0, "", "", ""))]
        /\ UNCHANGED processedUpdates

\* The synchronous prefix of bot.callbackQuery('cancel_delete_account')
\* (bot.ts:311-312): no guard on the sender's identity
HandleCancelDelete(s, upd, replay) ==
    LET t0 == [IdleTask EXCEPT !.update = upd, !.replay = replay]
    IN  /\ tasks' = [tasks EXCEPT ![s] =
            Issue(t0, "cancelAck", Call("answerCallbackQuery", 0, 0, "", "Cancelled", ""))]
        /\ UNCHANGED processedUpdates

\* cancel_delete_account: answerCallbackQuery('Cancelled') returns or throws
CancelAckResolved(s) ==
    /\ tasks[s].pc = "cancelAck"
    /\ \E o \in {"ok", "fail"} :
        LET t == [tasks[s] EXCEPT !.log = Settle(@, o)]
        IN  tasks' = [tasks EXCEPT ![s] =
                IF o = "ok"
                THEN Issue(t, "cancelEdit", Call("edit", 0, 0, "", "DeletionCancelled", ""))
                ELSE Escape(t, GrammyError)]
    /\ UNCHANGED <<processedUpdates, userTokens, lastUpdateId>>

\* cancel_delete_account: editMessageText(cancelled) returns or throws
CancelEditResolved(s) ==
    /\ tasks[s].pc = "cancelEdit"
    /\ \E o \in {"ok", "fail"} :
        LET t == [tasks[s] EXCEPT !.log = Settle(@, o)]
        IN  tasks' = [tasks EXCEPT ![s] =
                IF o = "ok" THEN Finish(t, "cancelled") ELSE Escape(t, GrammyError)]
    /\ UNCHANGED <<processedUpdates, userTokens, lastUpdateId>>

\* --------------------------------------------------- link-listing flow
\* ctx.match[1] of a links_page press, as its characters: the no-op button, a
\* word, page numbers in and out of range, a number followed by letters
PageTokens ==
    {<<"n", "o", "o", "p">>, <<"a", "b">>, <<"1">>, <<"2">>, <<"0">>, <<"9">>,
     <<"2", "x">>}

DigitChars == <<"0", "1", "2", "3", "4", "5", "6", "7", "8", "9">>
IsDigit(c) == \E d \in 1..10 : DigitChars[d] = c
DigitValue(c) == (CHOOSE d \in 1..10 : DigitChars[d] = c) - 1

RECURSIVE LeadingDigits(_)
LeadingDigits(str) ==
    IF str = <<>> \/ ~IsDigit(Head(str)) THEN <<>>
    ELSE <<Head(str)>> \o LeadingDigits(Tail(str))

RECURSIVE DecimalValue(_)
DecimalValue(ds) ==
    IF ds = <<>> THEN 0
    ELSE 10 * DecimalValue(SubSeq(ds, 1, Len(ds) - 1)) + DigitValue(ds[Len(ds)])

NaN == [nan |-> TRUE, value |-> 0]

\* parseInt(action, 10): an optional sign and the longest run of digits that
\* follows; what comes after the digits is ignored; NaN if there is no digit
parseInt(str) ==
    LET signed == str # <<>> /\ Head(str) \in {"-", "+"}
        digits == LeadingDigits(IF signed THEN Tail(str) ELSE str)
    IN  IF digits = <<>> THEN NaN
        ELSE [nan |-> FALSE,
              value |-> IF signed /\ Head(str) = "-" THEN 0 - DecimalValue(digits)
                        ELSE DecimalValue(digits)]

isNaN(n) == n.nan

\* the catch block of showLinksPage (bot.ts:380-393)
LinksErrorMessage(err) ==
    IF err.cls = "CloudStorageApiError" THEN err.message ELSE "Failed to get links."

\* The synchronous prefix of bot.callbackQuery(/^links_page:(.+)$/)
\* (bot.ts:397-416)
HandleLinksPage(s, upd, replay) ==
    LET t0 == [IdleTask EXCEPT !.update = upd, !.replay = replay]
        action == upd.match
    IN  /\ tasks' = [tasks EXCEPT ![s] =
            IF upd.from = NoUser
            THEN Issue(t0, "finalAck",
                       Call("answerCallbackQuery", 0, 0, "", "NoIdentity", ""))
            ELSE IF action = <<>> \/ action = <<"n", "o", "o", "p">>
            THEN Issue(t0, "finalAck", Call("answerCallbackQuery", 0, 0, "", "", ""))
            ELSE IF isNaN(parseInt(action))
            THEN Issue(t0, "finalAck",
                       Call("answerCallbackQuery", 0, 0, "", "Invalid page.", ""))
            ELSE Issue(t0, "pageAck", Call("answerCallbackQuery", 0, 0, "", "", ""))]
        /\ UNCHANGED processedUpdates

\* links_page: answerCallbackQuery() returns or throws; showLinksPage begins
\* with its listing request (bot.ts:416-417, 330-336)
PageAckResolved(s) ==
    /\ tasks[s].pc = "pageAck"
    /\ \E o \in {"ok", "fail"} :
        LET t == [tasks[s] EXCEPT !.log = Settle(@, o)]
        IN  tasks' = [tasks EXCEPT ![s] =
                IF o = "ok"
                THEN Issue(t, "getLinks",
                           Call("getLinksWithViews", t.update.from,
                                parseInt(t.update.match).value, "", "", ""))
                ELSE Escape(t, GrammyError)]
    /\ UNCHANGED <<processedUpdates, userTokens, lastUpdateId>>

\* The failure alert of showLinksPage on a button press (bot.ts:388-389)
FailLinks(t, err) ==
    Issue([t EXCEPT !.error = err], "finalAck",
          Call("answerCallbackQuery", 0, 0, "", "Alert", LinksErrorMessage(err)))

\* showLinksPage: getLinksWithViews returns or throws (bot.ts:332-393); the
\* backend answers with links or with none
GetLinksResolved(s, R) ==
    /\ tasks[s].pc = "getLinks"
    /\ \E raw \in R, empty \in BOOLEAN :
        LET r == request(raw)
            t == [tasks[s] EXCEPT !.log = SettleRequest(@, raw)]
            page == parseInt(t.update.match).value
        IN  tasks' = [tasks EXCEPT ![s] =
                IF ~r.ok THEN FailLinks(t, r.error)
                ELSE IF empty /\ page = 1
                THEN Issue(t, "finalReply", Call("reply", 0, 0, "", "NoLinks", ""))
                ELSE Issue(t, "pageEdit", Call("edit", 0, page, "", "LinksPage", ""))]
    /\ UNCHANGED <<processedUpdates, userTokens, lastUpdateId>>

\* showLinksPage: editMessageText(page) returns or throws, inside the try
PageEditResolved(s) ==
    /\ tasks[s].pc = "pageEdit"
    /\ \E o \in {"ok", "fail"} :
        LET t == [tasks[s] EXCEPT !.log = Settle(@, o)]
        IN  tasks' = [tasks EXCEPT ![s] =
                IF o = "ok" THEN Finish(t, "shown") ELSE FailLinks(t, GrammyError)]
    /\ UNCHANGED <<processedUpdates, userTokens, lastUpdateId>>

\* ------------------------------------------------------------ dispatch
\* The router: the handler registered for the update's kind runs.
Handle(s, upd, replay) ==
    IF upd.kind \in MediaKinds THEN HandleMedia(s, upd, replay)
    ELSE IF upd.kind = "contact" THEN HandleContact(s, upd, replay)
    ELSE IF upd.kind = "delete_account" THEN HandleDeleteAccount(s, upd, replay)
    ELSE IF upd.kind = "cancel_delete_account" THEN HandleCancelDelete(s, upd, replay)
    ELSE IF upd.kind = "links_page" THEN HandleLinksPage(s, upd, replay)
    ELSE HandleCommand(s, upd, replay)

\* the updates of a shared contact and of a press of a page button
ContactUpdates(id, senders) ==
    [id : {id}, kind : {"contact"}, from : senders, mime : {""}, size : {0},
     emptyPhoto : {FALSE}, contact : ContactUserIds, match : {<<>>}]

PageUpdates(id, senders) ==
    [id : {id}, kind : {"links_page"}, from : senders, mime : {""}, size : {0},
     emptyPhoto : {FALSE}, contact : {NoUser}, match : PageTokens]

\* A new update arrives with the next update id.
DeliverMedia ==
    \E s \in FreeSlots, id \in FreshIds :
        \E upd \in MediaUpdates(id, MediaKinds, MimeTypes, FileSizes, Users \cup {NoUser}) :
            /\ Handle(s, upd, FALSE)
            /\ lastUpdateId' = id
            /\ UNCHANGED userTokens

DeliverCommand ==
    \E s \in FreeSlots, id \in FreshIds :
        \E upd \in CommandUpdates(id, CommandKinds, Users \cup {NoUser}) :
            /\ Handle(s, upd, FALSE)
            /\ lastUpdateId' = id
            /\ UNCHANGED userTokens

\* A shared contact, the /delete_account command or a press of the cancel
\* button, or a press of a page button arrives.
DeliverFlow ==
    \E s \in FreeSlots, id \in FreshIds :
        \E upd \in ContactUpdates(id, Users \cup {NoUser})
                    \cup CommandUpdates(id, {"delete_account", "cancel_delete_account"},
                                        Users \cup {NoUser})
                    \cup PageUpdates(id, Users \cup {NoUser}) :
            /\ Handle(s, upd, FALSE)
            /\ lastUpdateId' = id
            /\ UNCHANGED userTokens

\* The provider delivers again an update whose handler sits in a slot (a
\* webhook redelivery): the same update_id with the same payload.
Redeliver ==
    \E s \in FreeSlots, u \in Slots :
        /\ tasks[u].pc # "idle"
        /\ Handle(s, tasks[u].update, TRUE)
        /\ UNCHANGED <<userTokens, lastUpdateId>>

\* One handler at a time, every kind of update, every answer of the backend.
Init ==
    /\ processedUpdates = <<>>
    /\ userTokens = [u \in Users |-> 0]
    /\ tasks = [s \in {1} |-> IdleTask]
    /\ lastUpdateId = 0

ResumeMedia(R) ==
    \/ \E s \in Slots : StatusReplyResolved(s)
    \/ \E s \in Slots : RegisterResolved(s, R)
    \/ \E s \in Slots : PresignResolved(s, R)
    \/ \E s \in Slots : GetFileResolved(s)
    \/ \E s \in Slots : DownloadResolved(s)
    \/ \E s \in Slots : TransferResolved(s)
    \/ \E s \in Slots : ConfirmResolved(s, R)
    \/ \E s \in Slots : EditOkResolved(s)
    \/ \E s \in Slots : EditFailResolved(s)
    \/ \E s \in Slots : FinalReplyResolved(s)

ResumeCommand(R) ==
    \/ \E s \in Slots : StartCreateResolved(s, R)
    \/ \E s \in Slots : StatusCreateResolved(s, R)

ResumeDelete(R) ==
    \/ \E s \in Slots : DeleteAccountResolved(s, R)
    \/ \E s \in Slots : AckDeletedResolved(s)
    \/ \E s \in Slots : EditDeletedResolved(s)
    \/ \E s \in Slots : FinalAckResolved(s)

ResumeFlow(R) ==
    \/ \E s \in Slots : UpdatePhoneResolved(s, R)
    \/ \E s \in Slots : CancelAckResolved(s)
    \/ \E s \in Slots : CancelEditResolved(s)
    \/ \E s \in Slots : PageAckResolved(s)
    \/ \E s \in Slots : GetLinksResolved(s, R)
    \/ \E s \in Slots : PageEditResolved(s)

Next ==
    \/ DeliverMedia
    \/ DeliverCommand
    \/ DeliverFlow
    \/ Redeliver
    \/ ResumeMedia(RawResponses)
    \/ ResumeCommand(RawResponses)
    \/ ResumeDelete(RawResponses)
    \/ ResumeFlow(RawResponses)

Spec == Init /\ [][Next]_vars

\* ------------------------------------------------ interleaved handlers
\* Webhook mode: handlers of several updates are in flight together and
\* interleave at every await.  The updates are documents, photos and presses of
\* the confirm button; the backend answers, fails with a message, or is
\* unreachable.
\* Every call a media handler awaits eventually returns or throws: a handler
\* that waits for an answer is eventually resumed.
SpecLive == Init /\ [][Next]_vars /\ WF_vars(ResumeMedia(RawResponses))

ConcResponses ==
    {raw \in RawResponses :
        \/ raw.transport = "fail"
        \/ raw.ok /\ raw.json
        \/ ~raw.ok /\ raw.json /\ raw.message # "" /\ raw.error = ""}

DeliverDocument ==
    \E s \in FreeSlots, id \in FreshIds :
        \E upd \in MediaUpdates(id, {"document", "photo"}, MimeTypes, {MAX_FILE_SIZE},
                                Users \cup {NoUser}) :
            /\ ~upd.emptyPhoto
            /\ Handle(s, upd, FALSE)
            /\ lastUpdateId' = id
            /\ UNCHANGED userTokens

DeliverConfirmDelete ==
    \E s \in FreeSlots, id \in FreshIds :
        \E upd \in CommandUpdates(id, {"confirm_delete_account"}, Users) :
            /\ Handle(s, upd, FALSE)
            /\ lastUpdateId' = id
            /\ UNCHANGED userTokens

InitConc ==
    /\ processedUpdates = <<>>
    /\ userTokens = [u \in Users |-> 0]
    /\ tasks = [s \in 1..MaxTasks |-> IdleTask]
    /\ lastUpdateId = 0

NextConc ==
    \/ DeliverDocument
    \/ DeliverConfirmDelete
    \/ Redeliver
    \/ ResumeMedia(ConcResponses)
    \/ ResumeDelete(ConcResponses)

SpecConc == InitConc /\ [][NextConc]_vars

\* ------------------------------------------------- the delete-account flow
\* The /delete_account command, presses of its two buttons and /status, by
\* identified senders, with the handlers interleaved at every await.
AccountKinds == {"delete_account", "cancel_delete_account", "confirm_delete_account", "status"}

AccountIds == IF lastUpdateId < MaxFlowUpdates THEN {lastUpdateId + 1} ELSE {}

DeliverAccount ==
    \E s \in FreeSlots, id \in AccountIds :
        \E upd \in CommandUpdates(id, AccountKinds, Users) :
            /\ Handle(s, upd, FALSE)
            /\ lastUpdateId' = id
            /\ UNCHANGED userTokens

InitFlow ==
    /\ processedUpdates = <<>>
    /\ userTokens = [u \in Users |-> 0]
    /\ tasks = [s \in 1..MaxFlowUpdates |-> IdleTask]
    /\ lastUpdateId = 0

ResumeAccount(R) ==
    \/ \E s \in Slots : StatusCreateResolved(s, R)
    \/ \E s \in Slots : CancelAckResolved(s)
    \/ \E s \in Slots : CancelEditResolved(s)
    \/ \E s \in Slots : FinalReplyResolved(s)

NextFlow ==
    \/ DeliverAccount
    \/ ResumeDelete(ConcResponses)
    \/ ResumeAccount(ConcResponses)

SpecFlow == InitFlow /\ [][NextFlow]_vars

\* ------------------------------------------------ the Deduplicator alone
\* isProcessed called with one update id after the other, from the empty set
\* until the set has been full and cleaned up; in between, ids seen before
\* (the first ever, the latest) are asked about again.
CallIsProcessed(id) ==
    /\ tasks' = [tasks EXCEPT ![1] =
            Finish([IdleTask EXCEPT !.update = [NoUpdate EXCEPT !.id = id]],
                   IF isProcessed(processedUpdates, id) THEN "dropped" ELSE "admitted")]
    /\ processedUpdates' = isProcessedSet(processedUpdates, id)
    /\ lastUpdateId' = IF id > lastUpdateId THEN id ELSE lastUpdateId
    /\ UNCHANGED userTokens

CallWithNextId ==
    /\ lastUpdateId < MAX_PROCESSED_UPDATES + MaxOverflow
    /\ CallIsProcessed(lastUpdateId + 1)

CallWithSeenId ==
    /\ lastUpdateId > 0
    /\ \E id \in {1, lastUpdateId} : CallIsProcessed(id)

NextDedup == CallWithNextId \/ CallWithSeenId

SpecDedup == Init /\ [][NextDedup]_vars

\* One handler after another, each kept in its own slot: /start, /status and
\* photo messages of one identified user.
DeliverCached ==
    /\ \A u \in Slots : ~InFlight(tasks[u])
    /\ \E s \in FreeSlots, id \in AccountIds :
        \E upd \in CommandUpdates(id, {"start", "status"}, Users)
                    \cup MediaUpdates(id, {"photo"}, {""}, {MAX_FILE_SIZE}, Users) :
            /\ ~upd.emptyPhoto
            /\ \A u \in Slots : tasks[u].pc # "idle" => tasks[u].update.from = upd.from
            /\ Handle(s, upd, FALSE)
            /\ lastUpdateId' = id
            /\ UNCHANGED userTokens

NextCache ==
    \/ DeliverCached
    \/ ResumeMedia(ConcResponses)
    \/ ResumeCommand(ConcResponses)

SpecCache == InitFlow /\ [][NextCache]_vars

\* The deduplicator over a run long enough for two cleanups: identifiers
\* arrive in increasing order, and between them the identifier recorded
\* EVICT_COUNT admissions ago, or the oldest one still recorded, is asked
\* again.
MaxWindowId == MAX_PROCESSED_UPDATES + EVICT_COUNT + MaxOverflow

CallWithNextWindowId ==
    /\ lastUpdateId < MaxWindowId
    /\ CallIsProcessed(lastUpdateId + 1)

CallAtWindowEdge ==
    /\ Len(processedUpdates) > EVICT_COUNT
    /\ CallIsProcessed(processedUpdates[Len(processedUpdates) - EVICT_COUNT])

CallWithOldestId ==
    /\ Len(processedUpdates) > 0
    /\ CallIsProcessed(processedUpdates[1])

NextWindow == CallWithNextWindowId \/ CallAtWindowEdge \/ CallWithOldestId

SpecWindow == Init /\ [][NextWindow]_vars

\* ------------------------------------------------------------ formatFileSize
\* toFixed(1) of bytes / unit: the tenths nearest to the quotient, the larger
\* one when two are equally near. bytes / unit is exact for a power of two.
ToFixed1(bytes, unit) ==
    LET tenths == (20 * bytes + unit) \div (2 * unit)
    IN  [whole |-> tenths \div 10, tenth |-> tenths % 10]

KB == 1024
MB == 1024 * 1024

\* (mutant) the first threshold is compared with <=
formatFileSizeInclusive(bytes) ==
    IF bytes <= KB THEN [whole |-> bytes, tenth |-> -1, unit |-> "B"]
    ELSE IF bytes < MB THEN [whole |-> ToFixed1(bytes, KB).whole,
                             tenth |-> ToFixed1(bytes, KB).tenth, unit |-> "KB"]
    ELSE [whole |-> ToFixed1(bytes, MB).whole,
          tenth |-> ToFixed1(bytes, MB).tenth, unit |-> "MB"]

\* bot.ts:54-58. The string is kept in its parts: the digits before the
\* point, the digit after it (-1 when there is none), and the unit.
formatFileSize(bytes) ==
    IF bytes < KB THEN [whole |-> bytes, tenth |-> -1, unit |-> "B"]
    ELSE IF bytes < MB THEN [whole |-> ToFixed1(bytes, KB).whole,
                             tenth |-> ToFixed1(bytes, KB).tenth, unit |-> "KB"]
    ELSE [whole |-> ToFixed1(bytes, MB).whole,
          tenth |-> ToFixed1(bytes, MB).tenth, unit |-> "MB"]

\* the text formatFileSize returns
SizeText(f) ==
    IF f.tenth < 0 THEN ToString(f.whole) \o " " \o f.unit
    ELSE ToString(f.whole) \o "." \o ToString(f.tenth) \o " " \o f.unit

\* file sizes around the two thresholds and up to the upload limit
MaxSizeSpread == 60
SizesTried ==
    (0..MaxSizeSpread)
        \cup ((KB - MaxSizeSpread)..(KB + MaxSizeSpread))
        \cup ((MB - MaxSizeSpread)..(MB + MaxSizeSpread))
        \cup {MAX_FILE_SIZE - 1, MAX_FILE_SIZE, MAX_FILE_SIZE + 1}
        \cup {k * (MB \div 16 + 1) : k \in 1..MaxSizeSpread}

\* A media handler formats the size of the file for its status message.
CallFormatFileSize ==
    /\ \E bytes \in SizesTried :
        LET f == formatFileSize(bytes)
        IN  tasks' = [tasks EXCEPT ![1] =
                Finish([IdleTask EXCEPT
                            !.update = [NoUpdate EXCEPT !.kind = "document", !.size = bytes],
                            !.log = <<[Call("formatFileSize", 0, f.whole, "", SizeText(f), f.unit)
                                          EXCEPT !.st = "ok", !.res = f.tenth]>>],
                       "formatted")]
    /\ UNCHANGED <<processedUpdates, userTokens, lastUpdateId>>

NextFormat == CallFormatFileSize

SpecFormat == Init /\ [][NextFormat]_vars

\* ------------------------------------------------------- delete-link flow
\* bot.ts:441, 452: files.slice(0, 10)
SELECT_LIMIT == 10
\* files a listing response names
MaxFiles == 11

\* file.fsObjectId of the i-th shared file
FileId(i) == "f" \o ToString(i)

\* response.data.files of listSharedFiles
FileLists == {[i \in 1..n |-> FileId(i)] : n \in 0..MaxFiles}

\* a button and its callback data, `delete_link:${arg}`
LinkButton(label, arg) ==
    [label |-> label, data |-> [prefix |-> "delete_link", arg |-> arg]]

\* bot.ts:439-448: one button per file of the first ten, then Cancel
deleteKeyboard(files) ==
    [i \in 1..Min(Len(files), SELECT_LIMIT) |-> LinkButton("Delete", files[i])]
        \o <<LinkButton("Cancel", "cancel")>>

\* The synchronous prefix of bot.command('delete_link') (bot.ts:421-428)
HandleDeleteLink(s, upd) ==
    LET t0 == [IdleTask EXCEPT !.update = upd]
    IN  /\ tasks' = [tasks EXCEPT ![s] =
            IF upd.from = NoUser
            THEN Issue(t0, "finalReply", Call("reply", 0, 0, "", "NoIdentity", ""))
            ELSE Issue(t0, "listFiles", Call("listSharedFiles", upd.from, 0, "", "", ""))]
        /\ UNCHANGED processedUpdates

\* delete_link: listSharedFiles returns or throws (bot.ts:428-467); res keeps
\* the files that came back, detail the keyboard or the error text
ListFilesResolved(s, R) ==
    /\ tasks[s].pc = "listFiles"
    /\ \E raw \in R, files \in FileLists :
        LET r == request(raw)
            t == [tasks[s] EXCEPT !.log = SettleRequest(@, raw)]
            listed == [t EXCEPT !.log = SettleWith(@, "ok", files)]
        IN  /\ ~r.ok => files = <<>>
            /\ tasks' = [tasks EXCEPT ![s] =
                IF ~r.ok
                THEN Issue([t EXCEPT !.error = r.error], "finalReply",
                           IF r.error.cls = "CloudStorageApiError"
                           THEN Call("reply", 0, 0, "", "FailedToList", r.error.message)
                           ELSE Call("reply", 0, 0, "", "UnexpectedError", ""))
                ELSE IF Len(files) = 0
                THEN Issue(listed, "finalReply", Call("reply", 0, 0, "", "NoSharedFiles", ""))
                ELSE Issue(listed, "finalReply",
                           Call("reply", 0, 0, "", "SelectFile", deleteKeyboard(files)))]
    /\ UNCHANGED <<processedUpdates, userTokens, lastUpdateId>>

\* (mutant) the request names the first file the backend knows, whatever
\* button was pressed
DeleteLinkFsObjectIdFirst(upd) == FileId(1)

\* bot.ts:478, 492-495: ctx.match[1] is the fsObjectId of the request
DeleteLinkFsObjectId(upd) == upd.match

\* The synchronous prefix of bot.callbackQuery(/^delete_link:(.+)$/)
\* (bot.ts:471-495)
HandleDeleteLinkPress(s, upd) ==
    LET t0 == [IdleTask EXCEPT !.update = upd]
    IN  /\ tasks' = [tasks EXCEPT ![s] =
            IF upd.from = NoUser
            THEN Issue(t0, "finalAck",
                       Call("answerCallbackQuery", 0, 0, "", "NoIdentity", ""))
            ELSE IF upd.match = "cancel"
            THEN Issue(t0, "linkCancelAck",
                       Call("answerCallbackQuery", 0, 0, "", "Cancelled", ""))
            ELSE Issue(t0, "deleteLink",
                       Call("deleteShareLink", upd.from, DeleteLinkFsObjectId(upd), "", "", ""))]
        /\ UNCHANGED processedUpdates

\* delete_link:cancel: answerCallbackQuery('Cancelled') returns or throws
LinkCancelAckResolved(s) ==
    /\ tasks[s].pc = "linkCancelAck"
    /\ \E o \in {"ok", "fail"} :
        LET t == [tasks[s] EXCEPT !.log = Settle(@, o)]
        IN  tasks' = [tasks EXCEPT ![s] =
                IF o = "ok"
                THEN Issue(t, "linkCancelEdit", Call("edit", 0, 0, "", "OperationCancelled", ""))
                ELSE Escape(t, GrammyError)]
    /\ UNCHANGED <<processedUpdates, userTokens, lastUpdateId>>

\* delete_link:cancel: editMessageText('Operation cancelled.') returns or throws
LinkCancelEditResolved(s) ==
    /\ tasks[s].pc = "linkCancelEdit"
    /\ \E o \in {"ok", "fail"} :
        LET t == [tasks[s] EXCEPT !.log = Settle(@, o)]
        IN  tasks' = [tasks EXCEPT ![s] =
                IF o = "ok" THEN Finish(t, "cancelled") ELSE Escape(t, GrammyError)]
    /\ UNCHANGED <<processedUpdates, userTokens, lastUpdateId>>

\* The catch block of the delete_link press (bot.ts:503-512)
FailDeleteLink(t, err) ==
    Issue([t EXCEPT !.error = err], "finalAck",
          Call("answerCallbackQuery", 0, 0, "", "Alert",
               IF err.cls = "CloudStorageApiError" THEN err.message
               ELSE "Failed to delete share link."))

\* delete_link press: deleteShareLink returns or throws (bot.ts:492-497)
DeleteShareLinkResolved(s, R) ==
    /\ tasks[s].pc = "deleteLink"
    /\ \E raw \in R :
        LET r == request(raw)
            t == [tasks[s] EXCEPT !.log = SettleRequest(@, raw)]
        IN  tasks' = [tasks EXCEPT ![s] =
                IF r.ok
                THEN Issue(t, "linkAck",
                           Call("answerCallbackQuery", 0, 0, "", "Share link deleted!", ""))
                ELSE FailDeleteLink(t, r.error)]
    /\ UNCHANGED <<processedUpdates, userTokens, lastUpdateId>>

\* delete_link press: answerCallbackQuery('Share link deleted!') returns or throws
LinkAckResolved(s) ==
    /\ tasks[s].pc = "linkAck"
    /\ \E o \in {"ok", "fail"} :
        LET t == [tasks[s] EXCEPT !.log = Settle(@, o)]
        IN  tasks' = [tasks EXCEPT ![s] =
                IF o = "ok"
                THEN Issue(t, "linkEdit", Call("edit", 0, 0, "", "LinkDeleted", ""))
                ELSE FailDeleteLink(t, GrammyError)]
    /\ UNCHANGED <<processedUpdates, userTokens, lastUpdateId>>

\* delete_link press: editMessageText(deleted) returns or throws
LinkEditResolved(s) ==
    /\ tasks[s].pc = "linkEdit"
    /\ \E o \in {"ok", "fail"} :
        LET t == [tasks[s] EXCEPT !.log = Settle(@, o)]
        IN  tasks' = [tasks EXCEPT ![s] =
                IF o = "ok" THEN Finish(t, "unlinked") ELSE FailDeleteLink(t, GrammyError)]
    /\ UNCHANGED <<processedUpdates, userTokens, lastUpdateId>>

\* the keyboards of the selection messages that were sent
ShownKeyboards ==
    {tasks[u].log[2].detail : u \in {v \in Slots :
        /\ tasks[v].update.kind = "delete_link"
        /\ Len(tasks[v].log) = 2
        /\ tasks[v].log[2].text = "SelectFile"
        /\ tasks[v].log[2].st = "ok"}}

\* The /delete_link command arrives.
DeliverDeleteLink ==
    /\ \A u \in Slots : ~InFlight(tasks[u])
    /\ \E s \in FreeSlots, id \in FreshIds :
        \E upd \in CommandUpdates(id, {"delete_link"}, Users \cup {NoUser}) :
            /\ HandleDeleteLink(s, upd)
            /\ lastUpdateId' = id
            /\ UNCHANGED userTokens

\* A button of a selection message is pressed.
DeliverDeleteLinkPress ==
    /\ \A u \in Slots : ~InFlight(tasks[u])
    /\ \E s \in FreeSlots, id \in FreshIds, kb \in ShownKeyboards, from \in Users \cup {NoUser} :
        \E i \in 1..Len(kb) :
            /\ tasks[s].pc = "idle"
            /\ HandleDeleteLinkPress(s,
                    [NoUpdate EXCEPT !.id = id, !.kind = "delete_link_press",
                                     !.from = from, !.match = kb[i].data.arg])
            /\ lastUpdateId' = id
            /\ UNCHANGED userTokens

NextLinks ==
    \/ DeliverDeleteLink
    \/ DeliverDeleteLinkPress
    \/ \E s \in Slots : ListFilesResolved(s, ConcResponses)
    \/ \E s \in Slots : DeleteShareLinkResolved(s, ConcResponses)
    \/ \E s \in Slots : LinkAckResolved(s)
    \/ \E s \in Slots : LinkEditResolved(s)
    \/ \E s \in Slots : LinkCancelAckResolved(s)
    \/ \E s \in Slots : LinkCancelEditResolved(s)
    \/ \E s \in Slots : FinalReplyResolved(s)
    \/ \E s \in Slots : FinalAckResolved(s)

SpecLinks == InitConc /\ [][NextLinks]_vars

\* ------------------------------------------------------------ showLinksPage
\* bot.ts:335: the page size showLinksPage asks for
LINKS_LIMIT == 5
\* links on one page of a listing response
MaxLinks == 2

\* response.data.pagination of a listing response
Paginations ==
    [page : 0..(MaxPages + 1), totalPages : 0..(MaxPages + 1), limit : {LINKS_LIMIT}]

\* a button of the inline keyboard and its callback data: links_page:<page>
\* or links_page:noop
PageButton(label, page) == [label |-> label, action |-> "page", page |-> page]
IndicatorButton == [label |-> "Indicator", action |-> "noop", page |-> 0]

\* (mutant) the Next button is offered on the last page too
paginationKeyboardInclusive(p) ==
    (IF p.page > 1 THEN <<PageButton("Previous", p.page - 1)>> ELSE <<>>)
        \o (IF p.page <= p.totalPages THEN <<PageButton("Next", p.page + 1)>> ELSE <<>>)
        \o (IF p.totalPages > 1 THEN <<IndicatorButton>> ELSE <<>>)

\* bot.ts:360-373: the keyboard built from the response's pagination
paginationKeyboard(p) ==
    (IF p.page > 1 THEN <<PageButton("Previous", p.page - 1)>> ELSE <<>>)
        \o (IF p.page < p.totalPages THEN <<PageButton("Next", p.page + 1)>> ELSE <<>>)
        \o (IF p.totalPages > 1 THEN <<IndicatorButton>> ELSE <<>>)

\* bot.ts:351-352: the numbers shown before the links (index counts from 0)
ItemNumbers(p, count) ==
    [k \in 1..count |-> (p.page - 1) * p.limit + (k - 1) + 1]

\* showLinksPage after its listing request returned (bot.ts:338-378): for
\* /link_list (page 1, a reply) or for a page button (an edit). The request's
\* res keeps what came back, the message's detail what is shown.
ShowLinksPageResolved ==
    /\ \E u \in Users, pressed \in BOOLEAN, page \in 0..(MaxPages + 1),
          p \in Paginations, count \in 0..MaxLinks :
        /\ ~pressed => page = 1
        /\ LET upd == [NoUpdate EXCEPT !.kind = IF pressed THEN "links_page" ELSE "link_list",
                                       !.from = u]
               asked == [Call("getLinksWithViews", u, page, "", "", "")
                            EXCEPT !.st = "ok",
                                   !.res = [pagination |-> p, links |-> count]]
               shown ==
                    IF count = 0 /\ page = 1
                    THEN [Call("reply", 0, 0, "", "NoLinks", "")
                            EXCEPT !.st = "ok",
                                   !.detail = [keyboard |-> <<>>, numbers |-> <<>>]]
                    ELSE [Call(IF pressed THEN "edit" ELSE "reply", 0, 0, "", "LinksPage", "")
                            EXCEPT !.st = "ok",
                                   !.detail = [keyboard |-> paginationKeyboard(p),
                                               numbers |-> ItemNumbers(p, count)]]
           IN  tasks' = [tasks EXCEPT ![1] =
                    Finish([IdleTask EXCEPT !.update = upd, !.log = <<asked, shown>>],
                           "shown")]
    /\ UNCHANGED <<processedUpdates, userTokens, lastUpdateId>>

NextPages == ShowLinksPageResolved

SpecPages == Init /\ [][NextPages]_vars

\* ------------------------------------------------------------ claims
StepOps == {"getUploadUrl", "getFile", "fetch", "uploadToS3", "completeUpload"}
UploadOrder == <<"getUploadUrl", "getFile", "fetch", "uploadToS3", "completeUpload">>
\* calls to the backend, to the provider's file service and to object storage
NetworkOps == StepOps \cup {"createUser", "deleteAccount"}

StepOf(op) ==
    CASE op = "getUploadUrl" -> "presign"
      [] op \in {"getFile", "fetch"} -> "fetch"
      [] op = "uploadToS3" -> "transfer"
      [] op = "completeUpload" -> "confirm"

CallsOf(t, ops) == SelectSeq(t.log, LAMBDA c : c.op \in ops)
Count(t, ops) == Len(CallsOf(t, ops))
OpsOf(calls) == [i \in 1..Len(calls) |-> calls[i].op]
IsPrefix(a, b) == Len(a) <= Len(b) /\ \A i \in 1..Len(a) : a[i] = b[i]
IsMedia(t) == t.pc # "idle" /\ t.update.kind \in MediaKinds

\* C1: in every upload transaction the steps are issued in the order presign,
\* fetch (getFile, then the download), transfer, confirm, and a step that
\* failed is the last step issued in that transaction.
UploadStepsInOrder ==
    \A s \in Slots :
        LET t == tasks[s]
            calls == CallsOf(t, StepOps)
        IN  /\ IsPrefix(OpsOf(calls), UploadOrder)
            /\ \A i \in 1..Len(calls) : calls[i].st = "fail" => i = Len(calls)
            /\ t.failedStep # "" =>
                    /\ Len(calls) > 0
                    /\ StepOf(calls[Len(calls)].op) = t.failedStep

\* C1 witness: a transaction ran all four steps, in order, and completed
UploadCompleted ==
    \E s \in Slots :
        /\ tasks[s].outcome = "uploaded"
        /\ OpsOf(CallsOf(tasks[s], StepOps)) = UploadOrder

\* C2: a media event of any kind whose declared size exceeds 20 MiB causes no
\* backend call, no provider file fetch and no storage PUT.
OversizeIssuesNoCall ==
    \A s \in Slots :
        IsMedia(tasks[s]) /\ tasks[s].update.size > MAX_FILE_SIZE
            => Count(tasks[s], NetworkOps) = 0

\* C3: the second delivery of an update id, of whatever payload kind, is
\* dropped: it causes no backend call and no outbound message.
ReplayCausesNothing ==
    \A s \in Slots : tasks[s].replay => tasks[s].log = <<>>

MutationOps == {"createUser", "getUploadUrl", "completeUpload", "deleteAccount"}
Mutated(t) == Count(t, MutationOps) > 0

\* C4: over any sequence of deliveries the backend mutation of one update id
\* is issued by at most one handler invocation.
MutationAtMostOncePerId ==
    \A s, u \in Slots :
        /\ s # u
        /\ tasks[s].pc # "idle"
        /\ tasks[u].pc # "idle"
        /\ tasks[s].update.id = tasks[u].update.id
        => ~(Mutated(tasks[s]) /\ Mutated(tasks[u]))

\* a media handler that went past its isProcessed check
Proceeded(t) == IsMedia(t) /\ t.outcome # "dropped"

\* C5: of two handlers of the same media update id, interleaved at every
\* await, at most one proceeds past isProcessed (and starts an upload).
AtMostOneProceeds ==
    \A s, u \in Slots :
        s # u /\ tasks[s].update.id = tasks[u].update.id
            => ~(Proceeded(tasks[s]) /\ Proceeded(tasks[u]))

\* C5 witness: the update was delivered again while its first handler was
\* suspended in the upload, and the second handler was dropped
ReplayDroppedWhileInFlight ==
    \E s, u \in Slots :
        /\ s # u
        /\ tasks[s].update.id = tasks[u].update.id
        /\ tasks[s].pc \in {"register", "presign", "getFile", "download", "transfer", "confirm"}
        /\ tasks[u].replay
        /\ tasks[u].outcome = "dropped"

\* what the user is shown of a failed transaction
ShownFailure(t) ==
    LET edits == SelectSeq(t.log, LAMBDA c : c.op = "edit" /\ c.text = "UploadFailed")
    IN  IF Len(edits) = 0 THEN "" ELSE edits[Len(edits)].detail

\* C6: failures of different steps are distinguishable, in what the
\* orchestrator raises and in what the user is shown.
FailuresTellTheStep ==
    \A s, u \in Slots :
        /\ tasks[s].failedStep # ""
        /\ tasks[u].failedStep # ""
        /\ tasks[s].failedStep # tasks[u].failedStep
        => /\ tasks[s].error # tasks[u].error
           /\ ShownFailure(tasks[s]) # ShownFailure(tasks[u])

\* C7: no step of a transaction is issued twice, and after a failed step the
\* handler makes no further backend, provider-fetch or storage call: it only
\* edits the status message.
NoAutomaticRetry ==
    \A s \in Slots :
        LET t == tasks[s]
        IN  /\ \A op \in StepOps : Count(t, {op}) <= 1
            /\ \A i \in 1..Len(t.log) :
                    t.log[i].op \in StepOps /\ t.log[i].st = "fail"
                        => \A j \in (i + 1)..Len(t.log) : t.log[j].op = "edit"
            /\ t.failedStep # "" =>
                    /\ t.log[Len(t.log)].op = "edit"
                    /\ t.log[Len(t.log) - 1].op \in StepOps

\* C7 witness: a step failed and the handler has finished
StepFailedAndDone ==
    \E s \in Slots :
        /\ tasks[s].pc = "done"
        /\ tasks[s].failedStep = "presign"
        /\ Count(tasks[s], {"getUploadUrl"}) = 1

\* C8: the storage PUT carries the content type declared in the presign
\* request of its transaction and goes, once, to the URL that presign returned.
TransferMatchesPresign ==
    \A s \in Slots :
        LET t == tasks[s]
        IN  /\ Count(t, {"uploadToS3"}) <= 1
            /\ \A i \in 1..Len(t.log) :
                    t.log[i].op = "uploadToS3" =>
                        \E j \in 1..(i - 1) :
                            /\ t.log[j].op = "getUploadUrl"
                            /\ t.log[j].st = "ok"
                            /\ t.log[i].ctype = t.log[j].ctype
                            /\ t.log[i].obj = t.log[j].res

\* C8 witness: a PUT was issued with a content type the client declared
TransferOfDeclaredType ==
    \E s \in Slots :
        /\ tasks[s].update.mime # ""
        /\ \E i \in 1..Len(tasks[s].log) :
                /\ tasks[s].log[i].op = "uploadToS3"
                /\ tasks[s].log[i].ctype = tasks[s].update.mime

\* C9: the confirm step supplies the object reference and the caller identity
\* of the presign step of its own transaction, whatever else is in flight.
ConfirmMatchesPresign ==
    \A s \in Slots :
        LET t == tasks[s]
        IN  \A i \in 1..Len(t.log) :
                t.log[i].op = "completeUpload" =>
                    \E j \in 1..(i - 1) :
                        /\ t.log[j].op = "getUploadUrl"
                        /\ t.log[j].st = "ok"
                        /\ t.log[i].obj = t.log[j].res
                        /\ t.log[i].tid = t.log[j].tid

\* C9 witness: two transactions of one caller await their confirm step together
TwoConfirmsInFlight ==
    \E s, u \in Slots :
        /\ s # u
        /\ tasks[s].pc = "confirm"
        /\ tasks[u].pc = "confirm"
        /\ tasks[s].update.from = tasks[u].update.from
        /\ tasks[s].urlResponse # tasks[u].urlResponse

Replies(t) == Count(t, {"reply"})
Edits(t) == Count(t, {"edit"})
AppliedEdits(t) == Len(SelectSeq(t.log, LAMBDA c : c.op = "edit" /\ c.st = "ok"))
\* a media event the handler turns down before the status message
Rejected(upd) ==
    \/ upd.from = NoUser
    \/ upd.kind = "photo" /\ upd.emptyPhoto
    \/ upd.kind \in {"document", "video", "audio"} /\ upd.size > MAX_FILE_SIZE
Handled(t) == t.pc = "done" /\ t.outcome # "dropped"

\* C10 as stated: every non-duplicate media event gets the status message and
\* exactly one edit of it; every start, status and help event gets one reply.
OneReplyAndOneEdit ==
    \A s \in Slots :
        LET t == tasks[s]
        IN  Handled(t) =>
                /\ t.update.kind \in MediaKinds =>
                        /\ Replies(t) = 1
                        /\ t.log[1].text = "Uploading"
                        /\ Edits(t) = 1
                /\ t.update.kind \in {"start", "status", "help"} => Replies(t) = 1

\* C10 amended: every non-duplicate media event issues exactly one reply.  A
\* rejected event (no sender identity, no photo, oversize document, video or
\* audio) gets the rejection and no edit.  Otherwise the reply is the status
\* message: no edit follows if it could not be sent; if it was sent, one edit
\* is issued, and a second (the failure edit) only when the completion edit
\* itself failed, so that at most one edit is applied.  Every start, status
\* and help event issues exactly one reply and no edit.
OneReplyAtMostOneAppliedEdit ==
    \A s \in Slots :
        LET t == tasks[s]
            edits == CallsOf(t, {"edit"})
        IN  Handled(t) =>
                /\ t.update.kind \in MediaKinds =>
                        /\ Replies(t) = 1
                        /\ t.log[1].op = "reply"
                        /\ Rejected(t.update) =>
                                t.log[1].text # "Uploading" /\ Edits(t) = 0
                        /\ ~Rejected(t.update) =>
                                /\ t.log[1].text = "Uploading"
                                /\ t.log[1].st = "fail" => Edits(t) = 0
                                /\ t.log[1].st = "ok" =>
                                        /\ Edits(t) \in {1, 2}
                                        /\ AppliedEdits(t) <= 1
                                        /\ Edits(t) = 2 =>
                                                /\ edits[1].text = "UploadComplete"
                                                /\ edits[1].st = "fail"
                                                /\ edits[2].text = "UploadFailed"
                /\ t.update.kind \in {"start", "status", "help"} =>
                        Replies(t) = 1 /\ Edits(t) = 0

\* C10 witness: an upload failed at a step, and the status message was sent
\* and then edited once
StatusMessageEditedOnce ==
    \E s \in Slots :
        /\ Handled(tasks[s])
        /\ tasks[s].failedStep = "transfer"
        /\ Replies(tasks[s]) = 1
        /\ AppliedEdits(tasks[s]) = 1

\* C11: a shared contact whose user id is absent or is not the sender's own
\* never reaches the update-phone call, and a sender who shares one is
\* answered with the 'share your own phone number' message and nothing else.
ForeignContactRejected ==
    \A s \in Slots :
        LET t == tasks[s]
        IN  /\ t.pc # "idle"
            /\ t.update.kind = "contact"
            /\ (t.update.contact = NoUser \/ t.update.contact # t.update.from)
            => /\ Count(t, {"updatePhone"}) = 0
               /\ t.update.from # NoUser =>
                    /\ Len(t.log) = 1
                    /\ t.log[1].op = "reply"
                    /\ t.log[1].text = "ShareOwnNumber"

\* C11 witness: a sender shared a contact that carries no user id and has
\* been told to share their own number
AbsentContactRejected ==
    \E s \in Slots :
        /\ tasks[s].pc = "done"
        /\ tasks[s].update.kind = "contact"
        /\ tasks[s].update.from # NoUser
        /\ tasks[s].update.contact = NoUser
        /\ tasks[s].log[1].text = "ShareOwnNumber"
        /\ tasks[s].log[1].st = "ok"

\* C12: a handler of an event without sender identity answers 'could not
\* identify your account' and does nothing else.
NoIdentityStopsEveryHandler ==
    \A s \in Slots :
        LET t == tasks[s]
        IN  t.pc # "idle" /\ t.outcome # "dropped" /\ t.update.from = NoUser
                => /\ Len(t.log) = 1
                   /\ t.log[1].text = "NoIdentity"

\* C13: only the handler of a press of the confirm button issues the
\* delete-account call; the /delete_account command and a press of cancel issue
\* no backend call at all.
DeleteOnlyOnConfirm ==
    \A s \in Slots :
        LET t == tasks[s]
        IN  /\ Count(t, {"deleteAccount"}) > 0 => t.update.kind = "confirm_delete_account"
            /\ t.update.kind \in {"delete_account", "cancel_delete_account"}
                    => Count(t, NetworkOps \cup {"updatePhone", "getLinksWithViews"}) = 0

\* C13 witness: a sender asked for the deletion, pressed cancel, and then
\* /status answered their account's status
StatusAfterCancel ==
    \E a, b, c \in Slots :
        /\ tasks[a].update.kind = "delete_account"
        /\ tasks[b].update.kind = "cancel_delete_account"
        /\ tasks[c].update.kind = "status"
        /\ tasks[a].update.id < tasks[b].update.id
        /\ tasks[b].update.id < tasks[c].update.id
        /\ tasks[a].update.from = tasks[b].update.from
        /\ tasks[b].update.from = tasks[c].update.from
        /\ tasks[a].pc = "done"
        /\ tasks[b].outcome = "cancelled"
        /\ tasks[c].pc = "done"
        /\ tasks[c].log[1].op = "createUser"
        /\ tasks[c].log[1].st = "ok"
        /\ tasks[c].log[2].text = "AccountStatus"
        /\ tasks[c].log[2].st = "ok"

\* a page token made of decimal digits only
IsNumeric(str) == str # <<>> /\ \A i \in 1..Len(str) : IsDigit(str[i])
\* a page token that names a page of the listing
NamesValidPage(str) == IsNumeric(str) /\ DecimalValue(str) \in 1..MaxPages

\* C14: a press of a page button whose token is not numeric, or names no page
\* of the listing, is answered 'Invalid page.' and issues no listing request.
InvalidPageRejected ==
    \A s \in Slots :
        LET t == tasks[s]
        IN  /\ t.pc # "idle"
            /\ t.update.kind = "links_page"
            /\ t.update.from # NoUser
            /\ t.update.match # <<"n", "o", "o", "p">>
            /\ ~NamesValidPage(t.update.match)
            => /\ t.log[1].op = "answerCallbackQuery"
               /\ t.log[1].text = "Invalid page."
               /\ Count(t, {"getLinksWithViews"}) = 0

\* the requests of a handler that the backend answered with a non-success status
Refused(t) == SelectSeq(t.log, LAMBDA c : c.answer.transport = "ok" /\ ~c.answer.ok)
\* the message of the backend's error envelope: message, else error, else a default
EnvelopeMessage(a) ==
    IF a.message # "" THEN a.message
    ELSE IF a.error # "" THEN a.error
    ELSE "API request failed"

\* C15: a request the backend answered with a non-success status fails with a
\* CloudStorageApiError that carries the backend's message (message, else error
\* detail, else the default text), whatever the body of the response.
NonSuccessRaisesApiError ==
    \A s \in Slots :
        LET t == tasks[s]
        IN  Refused(t) # <<>> /\ t.outcome # "escaped"
                => /\ t.error.cls = "CloudStorageApiError"
                   /\ t.error.message = EnvelopeMessage(Refused(t)[1].answer)

MessageOps == {"reply", "edit", "answerCallbackQuery"}

\* C16: after an error escaped a handler, the user has been sent a generic
\* failure message for that event.
EscapedErrorIsReported ==
    \A s \in Slots :
        LET t == tasks[s]
        IN  t.outcome = "escaped"
                => /\ t.log[Len(t.log)].op \in MessageOps
                   /\ t.log[Len(t.log)].st = "ok"

\* what a message shows of a failure: the error text put into it, else the
\* fixed text it consists of
ShownMessage(c) == IF c.detail # "" THEN c.detail ELSE c.text
\* the fixed text a handler shows for a failure that is no CloudStorageApiError
GenericMessage(kind) ==
    CASE kind \in MediaKinds -> GenericUploadError(kind)
      [] kind = "start" -> "UnexpectedSetupError"
      [] kind = "status" -> "UnexpectedError"
      [] kind = "confirm_delete_account" -> "Failed to delete account."
      [] kind = "contact" -> "Failed to verify phone number."
      [] kind = "links_page" -> "Failed to get links."

RegistrationCachesToken ==
    \A s \in Slots :
        LET t == tasks[s]
        IN  /\ t.update.kind \in MediaKinds \cup {"start"}
            /\ \E i \in 1..Len(t.log) : t.log[i].op = "createUser" /\ t.log[i].st = "ok"
            => userTokens[t.update.from] # 0

FailureTexts ==
    {"FailedToRegister", "UnexpectedSetupError", "CouldNotFetchStatus",
     "UnexpectedError", "UploadFailed"}

\* C19: an event during which the registration call failed ends with a
\* failure message to the user, not with a report of success.
RegistrationFailureReported ==
    \A s \in Slots :
        LET t == tasks[s]
        IN  \A i \in 1..Len(t.log) :
                t.pc = "done" /\ t.log[i].op = "createUser" /\ t.log[i].st = "fail"
                    => /\ t.outcome # "uploaded"
                       /\ \E j \in (i + 1)..Len(t.log) :
                            t.log[j].op \in MessageOps /\ t.log[j].text \in FailureTexts

\* C20: the set of recorded update ids never holds more than 1000 ids (and
\* holds no id twice).
AtMostCapacityRecorded ==
    /\ Len(processedUpdates) <= MAX_PROCESSED_UPDATES
    /\ Cardinality({processedUpdates[i] : i \in 1..Len(processedUpdates)})
            = Len(processedUpdates)

\* C20 witness: the set was full when one more id arrived, and the oldest ids
\* have been deleted to make room for it
FullSetCleanedUp ==
    /\ lastUpdateId = MAX_PROCESSED_UPDATES + 1
    /\ Has(processedUpdates, lastUpdateId)
    /\ ~Has(processedUpdates, 1)
    /\ Len(processedUpdates) = MAX_PROCESSED_UPDATES - EVICT_COUNT + 1

\* C21: an identifier admitted while the set holds 1000 identifiers removes
\* exactly the 500 earliest-inserted ones before it is added, so the set is
\* then the 500 most recent old identifiers followed by the new one; an
\* identifier admitted while the set holds fewer than 1000 removes nothing.
AdmissionEvictsOldestHalf ==
    [][LET old == processedUpdates
           new == processedUpdates'
       IN  new # old =>
             /\ Len(new) > 0
             /\ ~Has(old, new[Len(new)])
             /\ IF Len(old) = MAX_PROCESSED_UPDATES
                THEN /\ new = Append(SubSeq(old, EVICT_COUNT + 1, Len(old)), new[Len(new)])
                     /\ Len(new) = EVICT_COUNT + 1
                ELSE /\ Len(old) < MAX_PROCESSED_UPDATES
                     /\ new = Append(old, new[Len(new)])]_vars

\* C21 witness: identifier 1001 was admitted into the full set 1..1000, which
\* now holds 501..1000 followed by 1001
OldestHalfEvicted ==
    /\ Len(processedUpdates) = EVICT_COUNT + 1
    /\ processedUpdates[Len(processedUpdates)] = MAX_PROCESSED_UPDATES + 1
    /\ \A i \in 1..EVICT_COUNT : processedUpdates[i] = EVICT_COUNT + i
    /\ tasks[1].outcome = "admitted"
    /\ tasks[1].update.id = MAX_PROCESSED_UPDATES + 1

\* C28: a recorded identifier stays recorded, and a check of it answers
\* "already processed", as long as at most 500 other identifiers have been
\* admitted since it was recorded; only the 501st such admission or a later
\* one removes it.
RecordedForWindow ==
    [][LET n == Len(processedUpdates)
       IN  /\ {processedUpdates[i] : i \in (IF n >= EVICT_COUNT THEN n - EVICT_COUNT + 1 ELSE 1)..n}
                \subseteq {processedUpdates'[j] : j \in 1..Len(processedUpdates')}
           /\ \A i \in (IF n > EVICT_COUNT THEN n - EVICT_COUNT ELSE 1)..n :
                tasks'[1].update.id = processedUpdates[i]
                    => tasks'[1].outcome = "dropped"]_vars

\* C28 witness: identifier 1000 was recorded into a set of 999, 500 others
\* were admitted after it (one cleanup among them), and its check is still
\* answered "already processed"
DroppedAtWindowEdge ==
    /\ lastUpdateId = MAX_PROCESSED_UPDATES + EVICT_COUNT
    /\ Len(processedUpdates) = MAX_PROCESSED_UPDATES
    /\ processedUpdates[Len(processedUpdates) - EVICT_COUNT] = MAX_PROCESSED_UPDATES
    /\ tasks[1].update.id = MAX_PROCESSED_UPDATES
    /\ tasks[1].outcome = "dropped"

\* C29: a check of an identifier that is recorded answers "already
\* processed" and leaves the set as it was: nothing is removed, even from a
\* full set, and the identifier keeps its insertion position.
SeenIdLeavesSetUnchanged ==
    [][Has(processedUpdates, tasks'[1].update.id)
          => /\ tasks'[1].outcome = "dropped"
             /\ processedUpdates' = processedUpdates]_vars

\* C29 witness: the oldest identifier was checked again while the set was
\* full; it is still the oldest and the set is still full
SeenAgainInFullSet ==
    /\ Len(processedUpdates) = MAX_PROCESSED_UPDATES
    /\ tasks[1].outcome = "dropped"
    /\ tasks[1].update.id = 1
    /\ processedUpdates[1] = 1

\* C22: every request sent to the backend carries the configured X-API-Key
\* header, and carries as telegramId the sender of the event being handled;
\* the legacy multipart upload carries both as headers.
RequestsCarryKeyAndCaller ==
    /\ \A s \in Slots :
        LET t == tasks[s]
        IN  \A i \in 1..Len(t.log) :
                t.log[i].op \in JsonOps
                    => /\ "X-API-Key" \in DOMAIN requestHeaders(NoHeaders)
                       /\ requestHeaders(NoHeaders)["X-API-Key"] = ApiKey
                       /\ t.log[i].tid = t.update.from
                       /\ t.log[i].tid \in Users
    /\ \A u \in Users, ct \in MimeTypes :
            /\ uploadFileHeaders(u, ct)["X-API-Key"] = ApiKey
            /\ uploadFileHeaders(u, ct)["X-Telegram-Id"] = u

\* C22 witness: an upload went through its three backend requests, each in
\* the name of the sender of the message
ThreeRequestsForSender ==
    \E s \in Slots :
        LET t == tasks[s]
        IN  /\ t.outcome = "uploaded"
            /\ t.update.from \in Users
            /\ OpsOf(CallsOf(t, JsonOps)) = <<"createUser", "getUploadUrl", "completeUpload">>
            /\ \A i \in 1..Len(t.log) :
                    t.log[i].op \in JsonOps => t.log[i].tid = t.update.from

\* what a call sends out, and what came back for it
RequestOf(c) ==
    [op |-> c.op, tid |-> c.tid, obj |-> c.obj, ctype |-> c.ctype,
     text |-> c.text, detail |-> c.detail]
ResponseOf(c) == [st |-> c.st, res |-> c.res, answer |-> c.answer]
SameEvent(a, b) == [a.update EXCEPT !.id = 0] = [b.update EXCEPT !.id = 0]
SameResponsesBefore(a, b, i) ==
    \A j \in 1..(i - 1) : ResponseOf(a.log[j]) = ResponseOf(b.log[j])

\* C23: what a handler sends does not depend on the token cache: two
\* handlers of the same event that got the same responses issued the same
\* backend requests and user-visible messages, whatever the cache held when
\* each of them ran.
CacheChangesNothing ==
    \A s \in Slots, u \in Slots :
        LET a == tasks[s]
            b == tasks[u]
        IN  (s # u /\ a.pc # "idle" /\ b.pc # "idle" /\ SameEvent(a, b))
                => /\ \A i \in 1..Min(Len(a.log), Len(b.log)) :
                        SameResponsesBefore(a, b, i)
                            => RequestOf(a.log[i]) = RequestOf(b.log[i])
                   /\ (a.pc = "done" /\ Len(a.log) <= Len(b.log)
                            /\ SameResponsesBefore(a, b, Len(a.log) + 1))
                        => Len(b.log) = Len(a.log)

\* C23 witness: the same photo was uploaded once before and once after a
\* /start of the sender put a token into the cache, with the same responses
UploadsAroundCaching ==
    \E u \in Users :
        /\ userTokens[u] # 0
        /\ tasks[1].update.kind = "photo" /\ tasks[1].outcome = "uploaded"
        /\ tasks[1].update.from = u
        /\ tasks[2].update.kind = "start" /\ tasks[2].pc = "done"
        /\ tasks[2].log[1].st = "ok"
        /\ tasks[3].update.kind = "photo" /\ tasks[3].outcome = "uploaded"
        /\ SameEvent(tasks[1], tasks[3])
        /\ SameResponsesBefore(tasks[1], tasks[3], Len(tasks[1].log) + 1)
        /\ Len(tasks[3].log) = Len(tasks[1].log)

\* C26: the reply of /start after a successful registration is the
\* account-created welcome exactly when the response says isNewUser, and the
\* welcome-back message exactly when it does not.
WelcomeFollowsIsNewUser ==
    \A s \in Slots :
        LET t == tasks[s]
        IN  (t.update.kind = "start" /\ Len(t.log) >= 2 /\ t.log[1].st = "ok")
                => /\ t.log[1].op = "createUser"
                   /\ t.log[1].res \in {IsNewUserFlag(TRUE), IsNewUserFlag(FALSE)}
                   /\ t.log[2].op = "reply"
                   /\ t.log[2].text \in {"WelcomeNew", "WelcomeBack"}
                   /\ t.log[2].text = "WelcomeNew" <=> t.log[1].res = IsNewUserFlag(TRUE)
                   /\ t.log[2].text = "WelcomeBack" <=> t.log[1].res = IsNewUserFlag(FALSE)

\* C26 witness: two /start commands of one caller, the first answered
\* isNewUser = true and greeted as created, the second answered false and
\* greeted as returning
CreatedThenWelcomedBack ==
    /\ tasks[1].update.kind = "start" /\ tasks[2].update.kind = "start"
    /\ tasks[1].update.from = tasks[2].update.from
    /\ tasks[1].update.id < tasks[2].update.id
    /\ tasks[1].pc = "done" /\ tasks[2].pc = "done"
    /\ tasks[1].log[1].res = IsNewUserFlag(TRUE)
    /\ tasks[1].log[2].text = "WelcomeNew" /\ tasks[1].log[2].st = "ok"
    /\ tasks[2].log[1].res = IsNewUserFlag(FALSE)
    /\ tasks[2].log[2].text = "WelcomeBack" /\ tasks[2].log[2].st = "ok"

CacheEntriesKept ==
    [][\A u \in Users : userTokens[u] # 0 => userTokens'[u] # 0]_vars

\* C25 witness: the backend deleted the account of a caller whose token is
\* still in the cache
CachedAfterDeletion ==
    \E s \in Slots :
        LET t == tasks[s]
        IN  /\ t.update.kind = "confirm_delete_account"
            /\ t.update.from \in Users
            /\ t.pc = "done"
            /\ t.log[1].op = "deleteAccount" /\ t.log[1].st = "ok"
            /\ userTokens[t.update.from] # 0

\* C27: formatFileSize renders a count below 1024 as that count in B, a
\* count from 1024 to 1048575 in KB with one decimal place, and a count from
\* 1048576 on in MB with one decimal place.
SizeRenderedInItsUnit ==
    LET t == tasks[1]
        bytes == t.update.size
        c == t.log[1]
    IN  t.outcome = "formatted" =>
          /\ bytes < 1024 =>
                /\ c.detail = "B" /\ c.obj = bytes /\ c.res = -1
                /\ c.text = ToString(bytes) \o " B"
          /\ (bytes >= 1024 /\ bytes < 1048576) =>
                /\ c.detail = "KB" /\ c.res \in 0..9
                /\ 10 * bytes - 512 <= 1024 * (10 * c.obj + c.res)
                /\ 1024 * (10 * c.obj + c.res) <= 10 * bytes + 512
          /\ bytes >= 1048576 =>
                /\ c.detail = "MB" /\ c.res \in 0..9
                /\ 10 * bytes - 524288 <= 1048576 * (10 * c.obj + c.res)
                /\ 1048576 * (10 * c.obj + c.res) <= 10 * bytes + 524288

\* C27 witness: exactly 1024 bytes were rendered as "1.0 KB"
OneKilobyteRendered ==
    /\ tasks[1].outcome = "formatted"
    /\ tasks[1].update.size = 1024
    /\ tasks[1].log[1].text = "1.0 KB"

\* C30: the identifier of a media event is recorded as soon as its handler
\* has run its deduplication check, whatever becomes of the event, and a
\* redelivery of an event whose handler has finished, however it finished, is
\* dropped without a reply and without an upload.
RedeliveryAfterAnyOutcomeDropped ==
    [][/\ (tasks'[1].pc # "idle" /\ IsMedia(tasks'[1]))
            => Has(processedUpdates', tasks'[1].update.id)
       /\ (tasks[1].pc = "done" /\ IsMedia(tasks[1])
                /\ tasks'[1].update = tasks[1].update /\ tasks'[1] # tasks[1])
            => /\ tasks'[1].replay
               /\ tasks'[1].outcome = "dropped"
               /\ tasks'[1].log = <<>>
               /\ processedUpdates' = processedUpdates]_vars

\* C30 witness: a document above the size limit, rejected when it first
\* arrived, was delivered again and dropped
OversizeRedeliveryDropped ==
    /\ tasks[1].replay
    /\ tasks[1].update.kind = "document"
    /\ tasks[1].update.from \in Users
    /\ tasks[1].update.size > MAX_FILE_SIZE
    /\ tasks[1].outcome = "dropped"
    /\ tasks[1].log = <<>>
    /\ Has(processedUpdates, tasks[1].update.id)

\* a media event that is no duplicate and passes the identity and size checks
PassesChecks(t) ==
    /\ IsMedia(t)
    /\ t.outcome # "dropped"
    /\ t.update.from # NoUser
    /\ ~TooLarge(t.update.kind, t.update.size)

\* C31 (as stated): every finished media event that is no duplicate and
\* passes the identity and size checks has issued exactly one create-user
\* request, after its status reply and before its presign request.
RegistrationAlwaysAttempted ==
    \A s \in Slots :
        LET t == tasks[s]
        IN  (PassesChecks(t) /\ t.pc = "done")
                => /\ Count(t, {"createUser"}) = 1
                   /\ t.log[1].op = "reply"
                   /\ t.log[2].op = "createUser"

\* C31 (amended): a media event issues its one create-user request, for the
\* sender, exactly when its status message was sent: right after that reply
\* and before the presign request. An event whose status reply failed, or
\* that was turned down before it, issues none.
RegistrationOnceStatusSent ==
    \A s \in Slots :
        LET t == tasks[s]
            sent == /\ Len(t.log) >= 1
                    /\ t.log[1].op = "reply" /\ t.log[1].text = "Uploading"
                    /\ t.log[1].st = "ok"
        IN  IsMedia(t)
                => /\ Count(t, {"createUser"}) = (IF sent THEN 1 ELSE 0)
                   /\ sent => /\ t.log[2].op = "createUser"
                              /\ t.log[2].tid = t.update.from
                   /\ \A j \in 1..Len(t.log) :
                        t.log[j].op = "getUploadUrl"
                            => /\ j = 3
                               /\ t.log[2].op = "createUser"
                               /\ t.log[2].st # "pending"

\* C31 witness: the registration call of a voice message failed, between the
\* status reply and the presign request that was issued all the same
PresignAfterFailedRegistration ==
    \E s \in Slots :
        LET t == tasks[s]
        IN  /\ t.update.kind = "voice"
            /\ Len(t.log) >= 3
            /\ t.log[1].text = "Uploading" /\ t.log[1].st = "ok"
            /\ t.log[2].op = "createUser" /\ t.log[2].st = "fail"
            /\ t.log[3].op = "getUploadUrl"

\* C32: the upload-failed edit of the status message is issued only when the
\* presign, fetch, transfer or confirm step of the transaction failed; an
\* event whose confirm step succeeded never shows an upload-failed message.
FailureEditOnlyAfterFailedStep ==
    \A s \in Slots :
        LET t == tasks[s]
            confirmed == \E j \in 1..Len(t.log) :
                            t.log[j].op = "completeUpload" /\ t.log[j].st = "ok"
        IN  \A i \in 1..Len(t.log) :
                (t.log[i].op = "edit" /\ t.log[i].text = "UploadFailed")
                    => /\ t.failedStep \in {"presign", "fetch", "transfer", "confirm"}
                       /\ ~confirmed

\* the buttons of a keyboard with a given label
ButtonsLabelled(kb, label) == {i \in 1..Len(kb) : kb[i].label = label}

\* what the claim says of a message shown for pagination p
NavigationAsClaimed(p, shown, count) ==
    LET kb == shown.keyboard
    IN  /\ (ButtonsLabelled(kb, "Previous") # {}) <=> (p.page > 1)
        /\ (ButtonsLabelled(kb, "Next") # {}) <=> (p.page < p.totalPages)
        /\ \A i \in ButtonsLabelled(kb, "Previous") : kb[i].page = p.page - 1
        /\ \A i \in ButtonsLabelled(kb, "Next") : kb[i].page = p.page + 1
        /\ \A i \in 1..Len(kb) :
                kb[i].action = "page" => kb[i].page \in 1..p.totalPages
        /\ Len(shown.numbers) = count
        /\ \A k \in 1..count : shown.numbers[k] = (p.page - 1) * p.limit + (k - 1) + 1

\* C33 (as stated): for every listing response with 1 <= page <= totalPages
\* a Previous button is offered exactly when page > 1 and a Next button
\* exactly when page < totalPages, targeting page - 1 and page + 1, so every
\* navigation button targets a page in 1..totalPages, and the items are
\* numbered (page - 1) * limit + index + 1.
NavigationForEveryResponse ==
    LET t == tasks[1]
    IN  (t.outcome = "shown" /\ t.log[1].res.pagination.page >= 1
            /\ t.log[1].res.pagination.page <= t.log[1].res.pagination.totalPages)
            => NavigationAsClaimed(t.log[1].res.pagination, t.log[2].detail,
                                   t.log[1].res.links)

\* C33 (amended): the same, for every such response for which a page is
\* rendered, that is, unless the list is empty and page 1 was asked for.
NavigationForEveryRenderedPage ==
    LET t == tasks[1]
    IN  (t.outcome = "shown" /\ t.log[2].text = "LinksPage"
            /\ t.log[1].res.pagination.page >= 1
            /\ t.log[1].res.pagination.page <= t.log[1].res.pagination.totalPages)
            => NavigationAsClaimed(t.log[1].res.pagination, t.log[2].detail,
                                   t.log[1].res.links)

\* C33 witness: the middle page of three was rendered with both buttons,
\* targeting pages 1 and 3, and its items numbered from 6
MiddlePageRendered ==
    LET t == tasks[1]
    IN  /\ t.outcome = "shown" /\ t.log[2].text = "LinksPage"
        /\ t.log[1].res.pagination.page = 2
        /\ t.log[1].res.pagination.totalPages = 3
        /\ t.log[1].res.links = 2
        /\ t.log[2].detail.keyboard[1] = PageButton("Previous", 1)
        /\ t.log[2].detail.keyboard[2] = PageButton("Next", 3)
        /\ t.log[2].detail.numbers = <<6, 7>>


\* C34: a selection message of /delete_link shows one delete button for each
\* of the first SELECT_LIMIT files of the listing, bound in order to that
\* file's fsObjectId, followed by one cancel button and nothing else; a press
\* of a delete button by an identified sender has exactly one backend
\* request, a deleteShareLink carrying the sender and the fsObjectId of the
\* pressed button; a press of cancel has no backend request.
DeleteLinkFlowAsOffered ==
    \A s \in Slots :
        LET t == tasks[s]
            backend == {i \in 1..Len(t.log) : t.log[i].op \in JsonOps}
        IN  /\ (t.update.kind = "delete_link" /\ Len(t.log) = 2 /\ t.log[2].text = "SelectFile")
                => LET files == t.log[1].res
                       kb == t.log[2].detail
                       shown == Min(Len(files), SELECT_LIMIT)
                   IN  /\ Len(kb) = shown + 1
                       /\ shown <= SELECT_LIMIT
                       /\ \A i \in 1..shown : kb[i] = LinkButton("Delete", files[i])
                       /\ kb[shown + 1] = LinkButton("Cancel", "cancel")
                       /\ Cardinality({i \in 1..Len(kb) : kb[i].data.arg = "cancel"}) = 1
            /\ (t.update.kind = "delete_link_press" /\ t.update.from # NoUser
                    /\ t.update.match # "cancel")
                => /\ Cardinality(backend) = 1
                   /\ \A i \in backend :
                        /\ t.log[i].op = "deleteShareLink"
                        /\ t.log[i].tid = t.update.from
                        /\ t.log[i].obj = t.update.match
            /\ (t.update.kind = "delete_link_press" /\ t.update.match = "cancel")
                => backend = {}

\* C34 witness: a listing of more than SELECT_LIMIT files was offered, and a
\* press of a button other than the first ended with the link deleted
TenthFileUnlinked ==
    \E u, s \in Slots :
        /\ tasks[u].update.kind = "delete_link"
        /\ Len(tasks[u].log) = 2
        /\ tasks[u].log[2].text = "SelectFile"
        /\ Len(tasks[u].log[1].res) > SELECT_LIMIT
        /\ tasks[s].update.kind = "delete_link_press"
        /\ tasks[s].update.match = FileId(SELECT_LIMIT)
        /\ tasks[s].pc = "done"
        /\ tasks[s].outcome = "unlinked"
====
